---- MODULE Spec2Model ----
(***************************************************************************)
(* Authenticated API access layer of cliofy-cli: ConfigManager (token      *)
(* record), APIClient (request / response interceptors, single-flight      *)
(* token refresh) and AuthManager (login, register, logout, forced         *)
(* refresh), on a single-threaded event loop.                              *)
(*                                                                         *)
(* Scope of the model: Spec and SpecSession start from a file that holds   *)
(* the cached record; SpecStore opens the store over any file content,     *)
(* which may also be rewritten from outside. In these three writeFileSync  *)
(* does not fail, so saveConfig throws only on schema validation failure.  *)
(* SpecManager runs the store's own operations with writes that may fail,  *)
(* SpecTokens the token operations while time passes, SpecAuth the         *)
(* AuthManager's login and verifyToken with their answers and writes that  *)
(* may fail, and SpecSingleton getInstance and reset from a process in     *)
(* which no client has been constructed. SpecLive is Spec under weak       *)
(* fairness of the event loop's continuations, SpecTwoStores two           *)
(* ConfigManager instances over one file, and SpecEnv the store opened     *)
(* with the CLIOFY_* environment variables set to any value.               *)
(***************************************************************************)
EXTENDS Integers, Sequences, FiniteSets, TLC

\* ------------------------------------------------------------------ bounds
NCalls == 2        \* pipeline calls (logical domain calls) in one run
MaxSends == 3      \* HTTP dispatches per logical call the server may answer 401 to
MaxRefresh == 2    \* refreshIdToken calls made by the APIClient in one run
MaxTok == 2        \* token material issued by the identity provider in one run
MaxNow == 1        \* clock ticks in one run
MaxInstances == 3
MaxForced == 1     \* AuthManager.refreshToken() calls in one run

\* ------------------------------------------------------- program constants
bufferTime == 5 * 60 * 1000
DefaultExpiresIn == 3600
DefaultTimeout == 30000
TickMs == 60 * 60 * 1000

Calls == 1..NCalls

\* ------------------------------------------------------------ JS values
Str(n) == <<"str", n>>
Num(n) == <<"num", n>>
Null == <<"null">>
Undefined == <<"undefined">>

TokenFields ==
  {"firebaseIdToken", "firebaseRefreshToken", "firebaseUid", "userEmail",
   "firebaseTokenExpiresAt"}

StringFields ==
  {"endpoint", "firebaseIdToken", "firebaseRefreshToken", "firebaseUid",
   "userEmail", "lastLogin"}

NumberFields == {"timeout", "firebaseTokenExpiresAt"}

\* ConfigSchema.safeParse(cfg).success: endpoint and timeout have defaults,
\* every other field is optional; a present field must have its type, the
\* timeout is positive, endpoint and userEmail are a URL and an e-mail
\* address (url(), email()): neither the empty string Str(0) nor the
\* malformed string Str(-1); keys the schema does not know are not looked at.
SchemaOK(cfg) ==
  \A k \in DOMAIN cfg :
    /\ k \in StringFields => cfg[k][1] = "str"
    /\ k \in NumberFields => cfg[k][1] = "num"
    /\ k = "timeout" => cfg[k][2] > 0
    /\ k \in {"endpoint", "userEmail"} => cfg[k][2] > 0

DEFAULT_CONFIG == [endpoint |-> Str(1), timeout |-> Num(DefaultTimeout)]

\* safeParse(data).data under the earlier schema of the same file, which
\* has no Firebase fields
schemaParse_earlierSchema(data) ==
  [k \in (DOMAIN data \cap {"endpoint", "timeout", "lastLogin"})
          \cup {"endpoint", "timeout"} |->
     IF k \in DOMAIN data THEN data[k] ELSE DEFAULT_CONFIG[k]]

\* ConfigSchema.safeParse(data).data for data that passes: the schema's
\* fields only, endpoint and timeout defaulted when missing
schemaParse(data) ==
  [k \in (DOMAIN data \cap (StringFields \cup NumberFields))
          \cup {"endpoint", "timeout"} |->
     IF k \in DOMAIN data THEN data[k] ELSE DEFAULT_CONFIG[k]]

\* cfg.field in JavaScript: undefined when the key is absent
Get(cfg, k) == IF k \in DOMAIN cfg THEN cfg[k] ELSE Undefined

Has(cfg, k) == k \in DOMAIN cfg

\* truthiness of a string-or-undefined field (Str(0) is the empty string)
Truthy(v) == v # Undefined /\ v # Null /\ v # Str(0)

\* the deletion loop stops after the first undefined key it deleted; the
\* other keys given as undefined keep the record's value
MergeConfig_deletesOneKey(cfg, updates) ==
  LET undef == {k \in DOMAIN updates \cap DOMAIN cfg : updates[k] = Undefined}
      first == IF undef = {} THEN {} ELSE {CHOOSE k \in undef : TRUE}
      merged == [k \in DOMAIN cfg \cup DOMAIN updates |->
                   IF k \in DOMAIN updates /\ updates[k] # Undefined
                   THEN updates[k] ELSE Get(cfg, k)]
      keep == {k \in DOMAIN merged : merged[k] # Undefined} \ first
  IN [k \in keep |-> merged[k]]

\* newConfig built from the updates alone, without spreading currentConfig
MergeConfig_updatesOnly(cfg, updates) ==
  LET keep == {k \in DOMAIN updates : updates[k] # Undefined}
  IN [k \in keep \cup {"endpoint", "timeout"} |->
        IF k \in keep THEN updates[k] ELSE DEFAULT_CONFIG[k]]

\* { ...currentConfig, ...updates } followed by deletion of undefined values
MergeConfig(cfg, updates) ==
  LET merged == [k \in DOMAIN cfg \cup DOMAIN updates |->
                   IF k \in DOMAIN updates THEN updates[k] ELSE cfg[k]]
      keep == {k \in DOMAIN merged : merged[k] # Undefined}
  IN [k \in keep |-> merged[k]]

\* saveConfig throws "Invalid configuration" when validation fails
SaveThrows(cfg, updates) == ~SchemaOK(MergeConfig(cfg, updates))

\* updateConfig: the record after the call (unchanged when saveConfig threw)
updateConfig(cfg, updates) ==
  IF SaveThrows(cfg, updates) THEN cfg ELSE MergeConfig(cfg, updates)

\* config.json after saveConfig wrote cfg: JSON.stringify of the record
saved(cfg) == [kind |-> "json", data |-> cfg]

\* config.json after updateConfig(updates): rewritten unless saveConfig threw
fileAfterUpdate(f, cfg, updates) ==
  IF SaveThrows(cfg, updates) THEN f ELSE saved(MergeConfig(cfg, updates))

\* the argument of clearTokens without the firebaseUid entry
ClearUpdate_uidKept ==
  [firebaseIdToken |-> Undefined, firebaseRefreshToken |-> Undefined,
   userEmail |-> Undefined, firebaseTokenExpiresAt |-> Undefined]

ClearUpdate ==
  [firebaseIdToken |-> Undefined, firebaseRefreshToken |-> Undefined,
   firebaseUid |-> Undefined, userEmail |-> Undefined,
   firebaseTokenExpiresAt |-> Undefined]

clearTokens(cfg) == updateConfig(cfg, ClearUpdate)

clearFirebaseTokens(cfg) == updateConfig(cfg, ClearUpdate)

\* the update with expiresIn added to the clock as if it were milliseconds
TokensUpdate_secondsAsMs(idToken, refreshToken, expiresIn, uid, email, t) ==
  [firebaseIdToken |-> idToken, firebaseRefreshToken |-> refreshToken,
   firebaseUid |-> uid, userEmail |-> email,
   firebaseTokenExpiresAt |-> Num(t + expiresIn),
   lastLogin |-> Str(t)]

\* the argument updateFirebaseTokens passes to updateConfig at time t;
\* Str(t) stands for new Date().toISOString()
TokensUpdate(idToken, refreshToken, expiresIn, uid, email, t) ==
  [firebaseIdToken |-> idToken, firebaseRefreshToken |-> refreshToken,
   firebaseUid |-> uid, userEmail |-> email,
   firebaseTokenExpiresAt |-> Num(t + expiresIn * 1000),
   lastLogin |-> Str(t)]

updateFirebaseTokens(cfg, idToken, refreshToken, expiresIn, uid, email, t) ==
  updateConfig(cfg, TokensUpdate(idToken, refreshToken, expiresIn, uid, email, t))

\* isAuthenticated that asks only whether the two fields are defined
isAuthenticated_definedOnly(cfg) ==
  Has(cfg, "firebaseIdToken") /\ Has(cfg, "firebaseUid")

isAuthenticated(cfg) ==
  Truthy(Get(cfg, "firebaseIdToken")) /\ Truthy(Get(cfg, "firebaseUid"))

needsFirebaseTokenRefresh(cfg, t) ==
  IF ~Has(cfg, "firebaseTokenExpiresAt") \/ cfg["firebaseTokenExpiresAt"] = Num(0)
  THEN FALSE
  ELSE t >= cfg["firebaseTokenExpiresAt"][2] - bufferTime

getFirebaseRefreshToken(cfg) == Get(cfg, "firebaseRefreshToken")

\* `Bearer ${token}`
Bearer(token) == <<"Bearer ", token>>

\* the two headers getApiHeaders always returns
BaseHeaders ==
  ("Content-Type" :> "application/json") @@ ("User-Agent" :> "cliofy-cli/0.1.0")

\* getApiHeaders that adds the header for any defined token, empty or not
getApiHeaders_anyToken(cfg) ==
  IF Has(cfg, "firebaseIdToken")
  THEN BaseHeaders @@ ("Authorization" :> Bearer(cfg["firebaseIdToken"]))
  ELSE BaseHeaders

getApiHeaders(cfg) ==
  IF Truthy(Get(cfg, "firebaseIdToken"))
  THEN BaseHeaders @@ ("Authorization" :> Bearer(cfg["firebaseIdToken"]))
  ELSE BaseHeaders

\* Object.assign(headers, authHeaders), seen at the Authorization header:
\* prev is the value the request configuration held before
assignAuthorization(prev, authHeaders) ==
  IF "Authorization" \in DOMAIN authHeaders THEN authHeaders["Authorization"]
  ELSE prev

\* ---------------------------------------------------------------- state
VARIABLES
  config,          \* ConfigManager._config, once loaded
  file,            \* the content of config.json
  lastCall,        \* the last direct call of a ConfigManager method, and how it ended
  now,             \* Date.now()
  isRefreshing,    \* APIClient.isRefreshing
  refreshPromise,  \* APIClient.refreshPromise: 0 is null, n the n-th refresh
  refreshes,       \* the performTokenRefresh promises created so far
  forcedInFlight,  \* outstanding refreshIdToken calls of AuthManager.refreshToken
  nextTok,         \* next token material the identity provider issues
  pc,              \* per call: idle, reqAwait, sent, respAwait, done, returned
  resps,           \* per call: statuses received, in order (0: no response)
  awaiting,        \* per call: the refresh whose promise it is awaiting (0: none)
  hdr,             \* per call: Authorization header of its request configuration
  result,          \* per call: what the caller received
  singleton,       \* APIClient.instance, and the instances constructed
  otherConfig      \* _config of a second ConfigManager on the same directory

vars ==
  <<config, file, lastCall, now, isRefreshing, refreshPromise, refreshes, forcedInFlight,
    nextTok, pc, resps, awaiting, hdr, result, singleton, otherConfig>>

storeVars == <<file, lastCall>>

clientVars == <<isRefreshing, refreshPromise, refreshes>>

callVars == <<pc, resps, awaiting, hdr, result>>

\* new APIError(message, statusCode, details); a message is the sequence of
\* the pieces it is concatenated from
APIError(message, statusCode, details) ==
  [name |-> "APIError", message |-> message, statusCode |-> statusCode,
   details |-> details]

\* an AxiosError for a response with a non-2xx status
AxiosResponseError(status, data) ==
  [name |-> "AxiosError", message |-> <<"Request failed with status code">>,
   response |-> [status |-> status, data |-> data], request |-> TRUE]

\* an AxiosError for a request that was sent and got no response
AxiosNoResponseError ==
  [name |-> "AxiosError", message |-> <<"Network Error">>, request |-> TRUE]

\* bodies of error responses: { error, details }, and {}
ErrorBodies ==
  {[error |-> <<"server message">>, details |-> <<"server details">>],
   [empty |-> TRUE]}

\* the body a 401 response carries
Body401 == [error |-> <<"Unauthorized">>]

extractErrorMessage(data) ==
  IF "string" \in DOMAIN data THEN data["string"]
  ELSE IF "error" \in DOMAIN data THEN data["error"]
  ELSE IF "message" \in DOMAIN data THEN data["message"]
  ELSE <<"Unknown error occurred">>

extractErrorDetails(data) ==
  IF "string" \in DOMAIN data THEN Undefined
  ELSE IF "details" \in DOMAIN data THEN data["details"]
  ELSE IF "description" \in DOMAIN data THEN data["description"]
  ELSE Undefined

\* APIClient.handleError: by error.response, error.request, or neither
handleError(error, cfg) ==
  IF "response" \in DOMAIN error
  THEN APIError(extractErrorMessage(error.response.data),
                Num(error.response.status),
                extractErrorDetails(error.response.data))
  ELSE IF "request" \in DOMAIN error
  THEN APIError(<<"Network error: Could not connect to ", ToString(cfg["endpoint"])>>,
                Undefined, Undefined)
  ELSE APIError(<<"Request error: ">> \o error.message, Undefined, Undefined)

\* what the promise of this.httpClient.get/post/... settles with
NoResult == [name |-> "pending"]
Success == [name |-> "response", status |-> 200]
AuthenticationFailed ==
  APIError(<<"Authentication failed">>, Num(401), <<"Token refresh failed">>)
NoRefreshTokenError(cfg) ==
  handleError(APIError(<<"No Firebase refresh token available">>, Num(401),
                       Undefined), cfg)
RefreshFailedRequestError(cfg, cause) ==
  handleError(APIError(<<"Token refresh failed">>, Num(401), <<cause>>), cfg)
NetworkError(cfg) == handleError(AxiosNoResponseError, cfg)
RemoteError(status, data, cfg) == handleError(AxiosResponseError(status, data), cfg)

\* a domain operation (listTasks, createTask, ...): try { await the
\* httpClient call } catch (error) { throw this.handleError(error) }
domainOperation(r, cfg) ==
  IF r.name = "APIError" THEN handleError(r, cfg) ELSE r

\* The record a process starts from is the one on disk: the default record,
\* or what a login in an earlier process left there (an hour ago, so the
\* token is stale by now, or just now). The provider's token 1 is the one
\* such a login stored.
StartTime == TickMs

RecordAfterLogin(t) ==
  updateFirebaseTokens(DEFAULT_CONFIG, Str(1), Str(1), DefaultExpiresIn,
                       Str(1), Str(1), t)

InitialRecords ==
  {DEFAULT_CONFIG, RecordAfterLogin(0), RecordAfterLogin(StartTime)}

\* no ConfigManager method has been called directly
NoCall == [op |-> "none", threw |-> FALSE]

\* ConfigManager instances of the process
Managers == {1, 2}

\* APIClient.instance is null (instance 0) and no instance was constructed
NoInstance == [instance |-> 0, built |-> 0, sinceReset |-> 0, configManager |-> 0]

\* the first getInstance(configManager) of the process has constructed the
\* client over manager 1
FirstInstance == [instance |-> 1, built |-> 1, sinceReset |-> 1, configManager |-> 1]

\* private _config: Config | null = null, before the first read
NotRead == [read |-> FALSE]

\* no request has been issued and no refresh started; a second
\* ConfigManager has not read the record (_config = null)
InitRequests ==
  /\ otherConfig = NotRead
  /\ now = StartTime
  /\ isRefreshing = FALSE
  /\ refreshPromise = 0
  /\ refreshes = <<>>
  /\ forcedInFlight = 0
  /\ nextTok = 2
  /\ pc = [c \in Calls |-> "idle"]
  /\ resps = [c \in Calls |-> <<>>]
  /\ awaiting = [c \in Calls |-> 0]
  /\ hdr = [c \in Calls |-> Undefined]
  /\ result = [c \in Calls |-> NoResult]

\* the pipeline's state when the APIClient has been constructed
InitClient == singleton = FirstInstance /\ InitRequests

Init ==
  /\ config \in InitialRecords
  /\ file = saved(config)
  /\ lastCall = NoCall
  /\ InitClient

\* ------------------------------------------------------ event loop order
\* A continuation of an await on a settled promise is a microtask: it runs
\* before the next network event, timer or login completion is delivered.
\* So does the continuation of a domain operation whose call has settled.
Runnable(c) ==
  /\ pc[c] \in {"reqAwait", "respAwait"}
  /\ refreshes[awaiting[c]].status # "pending"

MacroEnabled == \A c \in Calls : ~Runnable(c) /\ pc[c] # "done"

\* HTTP dispatches made for call c: one per response, and the one in flight
sends(c) == Len(resps[c]) + (IF pc[c] = "sent" THEN 1 ELSE 0)

\* -------------------------------------------------- APIClient, pipeline
\* refreshTokenIfNeeded without the check for an in-flight refresh
refreshDecision_noJoin(refreshing, promise, cfg, t) ==
  IF ~needsFirebaseTokenRefresh(cfg, t) THEN "fresh"
  ELSE IF ~Truthy(getFirebaseRefreshToken(cfg)) THEN "noCredential"
  ELSE "start"

\* refreshTokenIfNeeded up to its first await: join the marker's promise,
\* return at once, throw for want of a refresh token, or start a refresh.
refreshDecision(refreshing, promise, cfg, t) ==
  IF refreshing /\ promise # 0 THEN "join"
  ELSE IF ~needsFirebaseTokenRefresh(cfg, t) THEN "fresh"
  ELSE IF ~Truthy(getFirebaseRefreshToken(cfg)) THEN "noCredential"
  ELSE "start"

\* the caller's promise settles: the call is over
Finish(c, r) ==
  /\ pc' = [pc EXCEPT ![c] = "done"]
  /\ result' = [result EXCEPT ![c] = r]
  /\ hdr' = [hdr EXCEPT ![c] = Undefined]
  /\ awaiting' = [awaiting EXCEPT ![c] = 0]

\* the request goes out with the headers it had before the await
Dispatch_headersNotReread(c, cfg, prev) ==
  /\ pc' = [pc EXCEPT ![c] = "sent"]
  /\ hdr' = [hdr EXCEPT ![c] = prev]
  /\ awaiting' = [awaiting EXCEPT ![c] = 0]

\* request interceptor after the await: Object.assign(config.headers,
\* getApiHeaders()) on a request whose Authorization header was prev, then
\* dispatchRequest
Dispatch(c, cfg, prev) ==
  /\ pc' = [pc EXCEPT ![c] = "sent"]
  /\ hdr' = [hdr EXCEPT ![c] = assignAuthorization(prev, getApiHeaders(cfg))]
  /\ awaiting' = [awaiting EXCEPT ![c] = 0]

\* the refresh is started but isRefreshing is never set
StartRefresh_flagNotSet(c) ==
  /\ Len(refreshes) < MaxRefresh
  /\ refreshes' = Append(refreshes, [status |-> "pending", details |-> "none"])
  /\ isRefreshing' = isRefreshing
  /\ refreshPromise' = Len(refreshes) + 1
  /\ awaiting' = [awaiting EXCEPT ![c] = Len(refreshes) + 1]

\* this.isRefreshing = true; this.refreshPromise = this.performTokenRefresh(..)
StartRefresh(c) ==
  /\ Len(refreshes) < MaxRefresh
  /\ refreshes' = Append(refreshes, [status |-> "pending", details |-> "none"])
  /\ isRefreshing' = TRUE
  /\ refreshPromise' = Len(refreshes) + 1
  /\ awaiting' = [awaiting EXCEPT ![c] = Len(refreshes) + 1]

\* request interceptor, up to the await of refreshTokenIfNeeded (or, when
\* that returns or throws at once, through to the dispatch or the error), for
\* a request whose configuration carries the Authorization header prev
RequestInterceptor(c, prev) ==
  LET d == refreshDecision(isRefreshing, refreshPromise, config, now) IN
  \/ /\ d = "join"
     /\ pc' = [pc EXCEPT ![c] = "reqAwait"]
     /\ awaiting' = [awaiting EXCEPT ![c] = refreshPromise]
     /\ hdr' = [hdr EXCEPT ![c] = prev]
     /\ UNCHANGED <<clientVars, result>>
  \/ /\ d = "fresh"
     /\ Dispatch(c, config, prev)
     /\ UNCHANGED <<clientVars, result>>
  \/ /\ d = "noCredential"
     /\ Finish(c, NoRefreshTokenError(config))
     /\ UNCHANGED clientVars
  \/ /\ d = "start"
     /\ StartRefresh(c)
     /\ pc' = [pc EXCEPT ![c] = "reqAwait"]
     /\ hdr' = [hdr EXCEPT ![c] = prev]
     /\ UNCHANGED result

\* a domain operation calls this.httpClient.get/post/...; calls are
\* interchangeable, they are numbered in the order they are issued
IssueCall(c) ==
  /\ pc[c] = "idle"
  /\ \A b \in Calls : b < c => pc[b] # "idle"
  /\ RequestInterceptor(c, Undefined)
  /\ UNCHANGED <<config, storeVars, now, singleton, otherConfig, forcedInFlight, nextTok, resps>>

\* response interceptor after refreshTokenIfNeeded returned without error:
\* when authenticated, assign the current headers to the original request
\* and retry it through the pipeline (this.httpClient.request), else throw
\* handleError
AfterReactiveRefresh(c, cfg) ==
  IF isAuthenticated(cfg)
  THEN RequestInterceptor(c, assignAuthorization(hdr[c], getApiHeaders(cfg)))
  ELSE /\ Finish(c, RemoteError(401, Body401, cfg))
       /\ UNCHANGED clientVars

\* the continuation of await this.refreshTokenIfNeeded() once the awaited
\* refresh has settled
Resume(c) ==
  /\ pc[c] \in {"reqAwait", "respAwait"}
  /\ refreshes[awaiting[c]].status # "pending"
  /\ \/ /\ pc[c] = "reqAwait"
        /\ refreshes[awaiting[c]].status = "resolved"
        /\ Dispatch(c, config, hdr[c])
        /\ UNCHANGED <<config, storeVars, clientVars, result>>
     \/ /\ pc[c] = "reqAwait"
        /\ refreshes[awaiting[c]].status = "rejected"
        /\ Finish(c, RefreshFailedRequestError(config, refreshes[awaiting[c]].details))
        /\ UNCHANGED <<config, storeVars, clientVars>>
     \/ /\ pc[c] = "respAwait"
        /\ refreshes[awaiting[c]].status = "resolved"
        /\ AfterReactiveRefresh(c, config)
        /\ UNCHANGED <<config, storeVars>>
     \/ /\ pc[c] = "respAwait"
        /\ refreshes[awaiting[c]].status = "rejected"
        /\ config' = clearTokens(config)
        /\ file' = fileAfterUpdate(file, config, ClearUpdate)
        /\ Finish(c, AuthenticationFailed)
        /\ UNCHANGED <<lastCall, clientVars>>
  /\ UNCHANGED <<now, singleton, otherConfig, forcedInFlight, nextTok, resps>>

\* the retried request's response is dropped (a retry awaited, not returned):
\* the handler falls through to throw handleError(error) of the first 401
ResponseOk_retryNotReturned(c) ==
  /\ MacroEnabled
  /\ pc[c] = "sent"
  /\ resps' = [resps EXCEPT ![c] = Append(@, 200)]
  /\ Finish(c, IF Len(resps[c]) = 0 THEN Success
               ELSE RemoteError(401, Body401, config))
  /\ UNCHANGED <<config, storeVars, now, singleton, otherConfig, clientVars, forcedInFlight, nextTok>>

\* response interceptor, success handler: (response) => response
ResponseOk(c) ==
  /\ MacroEnabled
  /\ pc[c] = "sent"
  /\ resps' = [resps EXCEPT ![c] = Append(@, 200)]
  /\ Finish(c, Success)
  /\ UNCHANGED <<config, storeVars, now, singleton, otherConfig, clientVars, forcedInFlight, nextTok>>

\* a non-2xx response other than 401: throw this.handleError(error)
ResponseError(c, data) ==
  /\ MacroEnabled
  /\ pc[c] = "sent"
  /\ resps' = [resps EXCEPT ![c] = Append(@, 500)]
  /\ Finish(c, RemoteError(500, data, config))
  /\ UNCHANGED <<config, storeVars, now, singleton, otherConfig, clientVars, forcedInFlight, nextTok>>

\* no response received: handleError's error.request branch
ResponseNetworkFailure(c) ==
  /\ MacroEnabled
  /\ pc[c] = "sent"
  /\ resps' = [resps EXCEPT ![c] = Append(@, 0)]
  /\ Finish(c, NetworkError(config))
  /\ UNCHANGED <<config, storeVars, now, singleton, otherConfig, clientVars, forcedInFlight, nextTok>>

\* response interceptor, error handler, status 401
Response401(c) ==
  /\ MacroEnabled
  /\ pc[c] = "sent"
  /\ sends(c) < MaxSends
  /\ resps' = [resps EXCEPT ![c] = Append(@, 401)]
  /\ IF isRefreshing
     THEN /\ Finish(c, RemoteError(401, Body401, config))
          /\ UNCHANGED <<config, storeVars, clientVars>>
     ELSE LET d == refreshDecision(isRefreshing, refreshPromise, config, now) IN
          \/ /\ d = "join"
             /\ pc' = [pc EXCEPT ![c] = "respAwait"]
             /\ awaiting' = [awaiting EXCEPT ![c] = refreshPromise]
             /\ UNCHANGED <<config, storeVars, clientVars, result, hdr>>
          \/ /\ d = "fresh"
             /\ AfterReactiveRefresh(c, config)
             /\ UNCHANGED <<config, storeVars>>
          \/ /\ d = "noCredential"
             /\ config' = clearTokens(config)
             /\ file' = fileAfterUpdate(file, config, ClearUpdate)
             /\ Finish(c, AuthenticationFailed)
             /\ UNCHANGED <<lastCall, clientVars>>
          \/ /\ d = "start"
             /\ StartRefresh(c)
             /\ pc' = [pc EXCEPT ![c] = "respAwait"]
             /\ UNCHANGED <<config, storeVars, result, hdr>>
  /\ UNCHANGED <<now, singleton, otherConfig, forcedInFlight, nextTok>>

\* the continuation of the domain operation's await: it hands the response
\* to its caller, or throws handleError(error); the call is then history
Return(c) ==
  /\ pc[c] = "done"
  /\ pc' = [pc EXCEPT ![c] = "returned"]
  /\ result' = [result EXCEPT ![c] = NoResult]
  /\ resps' = [resps EXCEPT ![c] = <<>>]
  /\ UNCHANGED <<config, storeVars, now, singleton, otherConfig, clientVars, forcedInFlight, nextTok, awaiting, hdr>>

\* ------------------------------------------------- identity exchange
\* What the securetoken endpoint can answer: an HTTP error or timeout, or
\* a 2xx body. A body is well formed (new tokens, expires_in given or not,
\* possibly at most the refresh buffer), empty ({}: no id_token), or
\* carries a null id_token. expires_in 0 stands for an absent field.
ExpiresInAnswers == {0, 300}

RefreshAnswers(n) ==
  {[http |-> "error", id_token |-> Undefined, refresh_token |-> Undefined,
    expires_in |-> 0]}
  \cup {[http |-> "ok", id_token |-> Str(n), refresh_token |-> Str(n),
         expires_in |-> e] : e \in ExpiresInAnswers}
  \cup {[http |-> "ok", id_token |-> Undefined, refresh_token |-> Undefined,
         expires_in |-> 0]}
  \cup {[http |-> "ok", id_token |-> Null, refresh_token |-> Str(n),
         expires_in |-> 0]}

\* the answer uses the provider's next token material
Issues(answer, n) == answer.id_token = Str(n) \/ answer.refresh_token = Str(n)

\* FirebaseAuthService.refreshIdToken on a 2xx body:
\* expiresIn: parseInt(result.expires_in) || 3600
refreshIdToken(answer) ==
  [idToken |-> answer.id_token, refreshToken |-> answer.refresh_token,
   expiresIn |-> IF answer.expires_in = 0 THEN DefaultExpiresIn
                 ELSE answer.expires_in]

\* performTokenRefresh whose catch block forgets clearFirebaseTokens
performTokenRefresh_noClear(cfg, answer, t) ==
  IF answer.http = "error"
  THEN [cfg |-> cfg, status |-> "rejected", details |-> "Failed to refresh token"]
  ELSE LET r == refreshIdToken(answer)
           upd == TokensUpdate(r.idToken, r.refreshToken, r.expiresIn,
                               Get(cfg, "firebaseUid"), Get(cfg, "userEmail"), t)
       IN IF SaveThrows(cfg, upd)
          THEN [cfg |-> cfg, status |-> "rejected",
                details |-> "Invalid configuration"]
          ELSE [cfg |-> MergeConfig(cfg, upd), status |-> "resolved",
                details |-> "none"]

\* performTokenRefresh whose promise never settles: the record is written
\* but the caller of refreshIdToken is not resumed
performTokenRefresh_neverSettles(cfg, answer, t) ==
  IF answer.http = "error"
  THEN [cfg |-> clearFirebaseTokens(cfg), status |-> "pending", details |-> "none"]
  ELSE LET r == refreshIdToken(answer)
           upd == TokensUpdate(r.idToken, r.refreshToken, r.expiresIn,
                               Get(cfg, "firebaseUid"), Get(cfg, "userEmail"), t)
       IN IF SaveThrows(cfg, upd)
          THEN [cfg |-> clearFirebaseTokens(cfg), status |-> "pending",
                details |-> "none"]
          ELSE [cfg |-> MergeConfig(cfg, upd), status |-> "pending",
                details |-> "none"]

\* APIClient.performTokenRefresh once refreshIdToken has settled: the record
\* it leaves and how its promise settles
performTokenRefresh(cfg, answer, t) ==
  IF answer.http = "error"
  THEN [cfg |-> clearFirebaseTokens(cfg), status |-> "rejected",
        details |-> "Failed to refresh token"]
  ELSE LET r == refreshIdToken(answer)
           upd == TokensUpdate(r.idToken, r.refreshToken, r.expiresIn,
                               Get(cfg, "firebaseUid"), Get(cfg, "userEmail"), t)
       IN IF SaveThrows(cfg, upd)
          THEN [cfg |-> clearFirebaseTokens(cfg), status |-> "rejected",
                details |-> "Invalid configuration"]
          ELSE [cfg |-> MergeConfig(cfg, upd), status |-> "resolved",
                details |-> "none"]

\* a finally block that resets isRefreshing and leaves refreshPromise
ClearMarker_promiseKept(status) ==
  /\ isRefreshing' = FALSE
  /\ refreshPromise' = refreshPromise

\* the marker is cleared after the await instead of in a finally block
ClearMarker_noFinally(status) ==
  IF status = "resolved"
  THEN isRefreshing' = FALSE /\ refreshPromise' = 0
  ELSE UNCHANGED <<isRefreshing, refreshPromise>>

\* refreshTokenIfNeeded's finally block, run by the caller that started the
\* refresh as the first continuation of the settled promise
ClearMarker(status) ==
  /\ isRefreshing' = FALSE
  /\ refreshPromise' = 0

\* the refresh network call of refresh id settles
SettleRefresh(id, answer) ==
  /\ MacroEnabled
  /\ id \in 1..Len(refreshes)
  /\ refreshes[id].status = "pending"
  /\ answer \in RefreshAnswers(nextTok)
  /\ Issues(answer, nextTok) => nextTok <= MaxTok
  /\ LET out == performTokenRefresh(config, answer, now) IN
       /\ config' = out.cfg
       /\ file' = saved(out.cfg)
       /\ refreshes' = [refreshes EXCEPT ![id] =
                          [status |-> out.status, details |-> out.details]]
       /\ ClearMarker(out.status)
  /\ nextTok' = IF Issues(answer, nextTok) THEN nextTok + 1 ELSE nextTok
  /\ UNCHANGED <<lastCall, now, singleton, otherConfig, forcedInFlight, callVars>>

\* ------------------------------------------------------- AuthManager
Uids == {1}

\* login / register: the identity exchange succeeded and the result is stored
ApplyAuthResult(u) ==
  /\ MacroEnabled
  /\ nextTok <= MaxTok
  /\ config' = updateFirebaseTokens(config, Str(nextTok), Str(nextTok),
                                    DefaultExpiresIn, Str(u), Str(u), now)
  /\ file' = fileAfterUpdate(file, config,
                             TokensUpdate(Str(nextTok), Str(nextTok),
                                          DefaultExpiresIn, Str(u), Str(u), now))
  /\ nextTok' = nextTok + 1
  /\ UNCHANGED <<lastCall, now, singleton, otherConfig, clientVars, forcedInFlight, callVars>>

Login(u) == ApplyAuthResult(u)

Register(u) == ApplyAuthResult(u)

Logout ==
  /\ MacroEnabled
  /\ config' = clearTokens(config)
  /\ file' = fileAfterUpdate(file, config, ClearUpdate)
  /\ UNCHANGED <<lastCall, now, singleton, otherConfig, clientVars, forcedInFlight, nextTok, callVars>>

\* AuthManager.refreshToken up to the await of refreshIdToken
ForcedRefreshStart ==
  /\ MacroEnabled
  /\ Truthy(getFirebaseRefreshToken(config))
  /\ forcedInFlight < MaxForced
  /\ forcedInFlight' = forcedInFlight + 1
  /\ UNCHANGED <<config, storeVars, now, singleton, otherConfig, clientVars, nextTok, callVars>>

\* AuthManager.refreshToken after the await: store the tokens; clear them on
\* a FirebaseAuthError; any other error (saveConfig threw) is only reported
forcedRefreshResult(cfg, answer, t) ==
  IF answer.http = "error"
  THEN clearFirebaseTokens(cfg)
  ELSE LET r == refreshIdToken(answer) IN
       updateFirebaseTokens(cfg, r.idToken, r.refreshToken, r.expiresIn,
                            Get(cfg, "firebaseUid"), Get(cfg, "userEmail"), t)

\* config.json after AuthManager.refreshToken
forcedRefreshFile(f, cfg, answer, t) ==
  IF answer.http = "error"
  THEN fileAfterUpdate(f, cfg, ClearUpdate)
  ELSE LET r == refreshIdToken(answer) IN
       fileAfterUpdate(f, cfg,
                       TokensUpdate(r.idToken, r.refreshToken, r.expiresIn,
                                    Get(cfg, "firebaseUid"),
                                    Get(cfg, "userEmail"), t))

ForcedRefreshSettle(answer) ==
  /\ MacroEnabled
  /\ forcedInFlight > 0
  /\ answer \in RefreshAnswers(nextTok)
  /\ Issues(answer, nextTok) => nextTok <= MaxTok
  /\ config' = forcedRefreshResult(config, answer, now)
  /\ file' = forcedRefreshFile(file, config, answer, now)
  /\ forcedInFlight' = forcedInFlight - 1
  /\ nextTok' = IF Issues(answer, nextTok) THEN nextTok + 1 ELSE nextTok
  /\ UNCHANGED <<lastCall, now, singleton, otherConfig, clientVars, callVars>>

\* time passes
Tick ==
  /\ MacroEnabled
  /\ now < StartTime + MaxNow * TickMs
  /\ now' = now + TickMs
  /\ UNCHANGED <<config, storeVars, clientVars, forcedInFlight, nextTok, callVars, singleton, otherConfig>>

\* the pipeline's steps for call c
CallStep(c) ==
  \/ IssueCall(c)
  \/ Resume(c)
  \/ ResponseOk(c)
  \/ \E data \in ErrorBodies : ResponseError(c, data)
  \/ ResponseNetworkFailure(c)
  \/ Response401(c)
  \/ Return(c)

RefreshSettles ==
  \E id \in 1..MaxRefresh : \E a \in RefreshAnswers(nextTok) : SettleRefresh(id, a)

\* Concurrent pipeline calls of one session: no login or logout meanwhile.
Next ==
  \/ \E c \in Calls : CallStep(c)
  \/ RefreshSettles
  \/ Tick

Spec == Init /\ [][Next]_vars

\* The same calls when every network call settles (the request timeout sees
\* to that) and the event loop runs every continuation that is ready
Fairness ==
  /\ WF_vars(RefreshSettles)
  /\ \A c \in Calls : WF_vars(Resume(c)) /\ WF_vars(Return(c))

SpecLive == Init /\ [][Next]_vars /\ Fairness

\* One pipeline call interleaved with the session operations of AuthManager.
NextSession ==
  \/ CallStep(1)
  \/ RefreshSettles
  \/ \E u \in Uids : Login(u)
  \/ \E u \in Uids : Register(u)
  \/ Logout
  \/ ForcedRefreshStart
  \/ \E a \in RefreshAnswers(nextTok) : ForcedRefreshSettle(a)
  \/ Tick

SpecSession == Init /\ [][NextSession]_vars

\* ------------------------------------------------ ConfigManager, direct
\* config.json as the store finds it: missing, unreadable (readFileSync
\* throws), not JSON (JSON.parse throws), or the JSON of some object
FileAbsent == [kind |-> "absent"]
FileUnreadable == [kind |-> "unreadable"]
FileNotJSON == [kind |-> "text"]

\* loadConfig without its catch block: what the try body does
loadConfig_noCatch(f) ==
  IF f.kind = "absent" THEN [threw |-> FALSE, value |-> DEFAULT_CONFIG]
  ELSE IF f.kind \in {"unreadable", "text"}
  THEN [threw |-> TRUE, value |-> DEFAULT_CONFIG]
  ELSE IF SchemaOK(f.data) THEN [threw |-> FALSE, value |-> schemaParse(f.data)]
  ELSE [threw |-> FALSE, value |-> DEFAULT_CONFIG]

\* ConfigManager.loadConfig: whether it throws, and the record it returns
loadConfig(f) ==
  IF f.kind = "absent" THEN [threw |-> FALSE, value |-> DEFAULT_CONFIG]
  ELSE IF f.kind \in {"unreadable", "text"}
  THEN [threw |-> FALSE, value |-> DEFAULT_CONFIG]
  ELSE IF SchemaOK(f.data) THEN [threw |-> FALSE, value |-> schemaParse(f.data)]
  ELSE [threw |-> FALSE, value |-> DEFAULT_CONFIG]

\* process.env when the module is loaded: CLIOFY_ENDPOINT unset, a URL, or a
\* non-empty string that is no URL; CLIOFY_TIMEOUT unset, '99', or '0'
Environments ==
  [CLIOFY_ENDPOINT : {Undefined, Str(2), Str(-1)},
   CLIOFY_TIMEOUT : {Undefined, Num(99), Num(0)}]

\* DEFAULT_CONFIG as built under env:
\* endpoint: process.env.CLIOFY_ENDPOINT || ... || 'http://localhost:5173',
\* timeout: parseInt(process.env.CLIOFY_TIMEOUT || '30000', 10)
defaultConfig(env) ==
  [endpoint |-> IF Truthy(env.CLIOFY_ENDPOINT) THEN env.CLIOFY_ENDPOINT ELSE Str(1),
   timeout |-> IF env.CLIOFY_TIMEOUT = Undefined THEN Num(DefaultTimeout)
               ELSE env.CLIOFY_TIMEOUT]

\* loadConfig in a process started under env
loadConfigEnv(f, env) ==
  IF f.kind = "json" /\ SchemaOK(f.data)
  THEN [threw |-> FALSE, value |-> schemaParse(f.data)]
  ELSE [threw |-> FALSE, value |-> defaultConfig(env)]

\* How fs.writeFileSync ends: the file is written; it throws and the file is
\* as before (no permission); it throws after the file was opened for
\* writing, which leaves it cut short (disk full)
WriteOutcomes == {"written", "refused", "truncated"}

\* saveConfig that writes the record before validating it
saveConfig_writeFirst(f, cache, cfg, write) ==
  IF ~SchemaOK(cfg)
  THEN [threw |-> TRUE, file |-> saved(cfg), cache |-> cache]
  ELSE [threw |-> FALSE, file |-> saved(schemaParse(cfg)),
        cache |-> schemaParse(cfg)]

\* saveConfig that assigns this._config before it writes the file
saveConfig_cacheFirst(f, cache, cfg, write) ==
  IF ~SchemaOK(cfg)
  THEN [threw |-> TRUE, file |-> f, cache |-> cache]
  ELSE IF write = "refused"
  THEN [threw |-> TRUE, file |-> f, cache |-> schemaParse(cfg)]
  ELSE IF write = "truncated"
  THEN [threw |-> TRUE, file |-> FileNotJSON, cache |-> schemaParse(cfg)]
  ELSE [threw |-> FALSE, file |-> saved(schemaParse(cfg)),
        cache |-> schemaParse(cfg)]

\* ConfigManager.saveConfig(cfg): whether it throws, config.json and _config
\* afterwards
saveConfig(f, cache, cfg, write) ==
  IF ~SchemaOK(cfg)
  THEN [threw |-> TRUE, file |-> f, cache |-> cache]
  ELSE IF write = "refused"
  THEN [threw |-> TRUE, file |-> f, cache |-> cache]
  ELSE IF write = "truncated"
  THEN [threw |-> TRUE, file |-> FileNotJSON, cache |-> cache]
  ELSE [threw |-> FALSE, file |-> saved(schemaParse(cfg)),
        cache |-> schemaParse(cfg)]

\* AuthManager.isAuthenticated delegates to the store
AuthManager_isAuthenticated(cfg) == isAuthenticated(cfg)

\* AuthHelpers.isTokenExpired(expiresAt) at time t
isTokenExpired(expiresAt, t) ==
  IF expiresAt = Undefined \/ expiresAt = Num(0) THEN TRUE ELSE t >= expiresAt[2]

\* AuthHelpers.needsRefresh(expiresAt) at time t
needsRefresh(expiresAt, t) ==
  IF expiresAt = Undefined \/ expiresAt = Num(0) THEN TRUE
  ELSE t >= expiresAt[2] - bufferTime

\* AuthManager.getTokenInfo()
getTokenInfo(cfg, t) ==
  IF Truthy(Get(cfg, "firebaseIdToken"))
  THEN [hasToken |-> TRUE, expiresAt |-> Get(cfg, "firebaseTokenExpiresAt"),
        isExpired |-> isTokenExpired(Get(cfg, "firebaseTokenExpiresAt"), t),
        needsRefresh |-> needsRefresh(Get(cfg, "firebaseTokenExpiresAt"), t),
        authType |-> "firebase"]
  ELSE [hasToken |-> FALSE, expiresAt |-> Undefined, isExpired |-> TRUE,
        needsRefresh |-> FALSE, authType |-> "none"]

\* AuthManager.needsTokenRefresh()
needsTokenRefresh(cfg, t) == needsFirebaseTokenRefresh(cfg, t)

\* AuthManager.getAuthStatus()
getAuthStatus(cfg, t) ==
  IF ~isAuthenticated(cfg) THEN "unauthenticated"
  ELSE IF needsFirebaseTokenRefresh(cfg, t) THEN "token_expired"
  ELSE "authenticated"

\* ConfigManager.getFirebaseUid, and AuthManager.getCurrentUserId, which
\* returns it
getFirebaseUid(cfg) == Get(cfg, "firebaseUid")
getCurrentUserId(cfg) == getFirebaseUid(cfg)

\* Records the schema accepts. Token fields: none, only a token, only a uid,
\* both, an empty token with a uid, a token with an empty uid. Expiry: none, negative, 0, and the two
\* values around the refresh buffer as seen from StartTime.
TokenParts ==
  {[endpoint |-> Str(1)],
   [firebaseIdToken |-> Str(1)],
   [firebaseUid |-> Str(1)],
   [firebaseIdToken |-> Str(1), firebaseUid |-> Str(1)],
   [firebaseIdToken |-> Str(0), firebaseUid |-> Str(1)],
   [firebaseIdToken |-> Str(1), firebaseUid |-> Str(0)]}

Expiries == {-1, 0, StartTime + bufferTime, StartTime + bufferTime + 1}

ExpiryParts ==
  {[endpoint |-> Str(1)]} \cup {[firebaseTokenExpiresAt |-> Num(e)] : e \in Expiries}

StoreRecords == {t @@ e @@ DEFAULT_CONFIG : t \in TokenParts, e \in ExpiryParts}

\* Records the schema rejects: a timeout that is a string, a timeout of 0, a
\* token that is a number, a token that is null
InvalidRecords ==
  {[DEFAULT_CONFIG EXCEPT !["timeout"] = Str(1)],
   [DEFAULT_CONFIG EXCEPT !["timeout"] = Num(0)],
   [firebaseIdToken |-> Num(1)] @@ DEFAULT_CONFIG,
   [firebaseIdToken |-> Null, firebaseUid |-> Str(1)] @@ DEFAULT_CONFIG}

\* JSON objects with a key the schema does not know, and without a timeout
OddObjects ==
  {[theme |-> Str(1)] @@ DEFAULT_CONFIG,
   [endpoint |-> Str(1), firebaseIdToken |-> Str(1), firebaseUid |-> Str(1)]}

FileContents ==
  {FileAbsent, FileUnreadable, FileNotJSON}
  \cup {saved(r) : r \in StoreRecords \cup InvalidRecords \cup OddObjects}

\* something other than this store rewrites or removes config.json
ExternalWrite(content) ==
  /\ content \in FileContents
  /\ file' = content
  /\ UNCHANGED <<config, lastCall, now, singleton, otherConfig, clientVars, forcedInFlight, nextTok,
                 callVars>>

\* a ConfigManager is constructed over the directory and its record read for
\* the first time: get config() -> loadConfig()
Open ==
  /\ lastCall' = [op |-> "loadConfig", threw |-> loadConfig(file).threw]
  /\ config' = IF loadConfig(file).threw THEN config ELSE loadConfig(file).value
  /\ UNCHANGED <<file, now, singleton, otherConfig, clientVars, forcedInFlight, nextTok, callVars>>

\* loadConfig() called on a manager that has read its record before: it
\* returns what loadConfig reads and assigns nothing
Reload ==
  /\ lastCall' = [op |-> "reload", threw |-> loadConfig(file).threw]
  /\ UNCHANGED <<config, file, now, singleton, otherConfig, clientVars, forcedInFlight, nextTok,
                 callVars>>

\* what became of the write in a call of saveConfig(cfg): validation comes
\* first, so for an invalid record no write is attempted
attempted(cfg, write) == IF SchemaOK(cfg) THEN write ELSE "notAttempted"

\* records saveConfig is called with in SpecManager: the default record,
\* a signed-in record without expiry, records with an empty token and
\* expiry 0 and with a uid and a past expiry only, a full record with
\* another endpoint and timeout, one with a key the schema does not know,
\* and the invalid ones
SaveArgs ==
  {DEFAULT_CONFIG,
   [firebaseIdToken |-> Str(1), firebaseUid |-> Str(1)] @@ DEFAULT_CONFIG,
   [firebaseIdToken |-> Str(0), firebaseUid |-> Str(1),
    firebaseTokenExpiresAt |-> Num(0)] @@ DEFAULT_CONFIG,
   [firebaseUid |-> Str(1), firebaseTokenExpiresAt |-> Num(-1)] @@ DEFAULT_CONFIG,
   [firebaseIdToken |-> Str(1), firebaseRefreshToken |-> Str(1),
    firebaseUid |-> Str(1), userEmail |-> Str(1),
    firebaseTokenExpiresAt |-> Num(StartTime + bufferTime + 1),
    lastLogin |-> Str(0), endpoint |-> Str(2), timeout |-> Num(99)],
   [theme |-> Str(1)] @@ DEFAULT_CONFIG}
  \cup InvalidRecords

\* saveConfig(cfg) called with a record
SaveConfig(cfg, write) ==
  /\ cfg \in StoreRecords \cup SaveArgs
  /\ write \in WriteOutcomes
  /\ LET out == saveConfig(file, config, cfg, write) IN
       /\ lastCall' = [op |-> "saveConfig", threw |-> out.threw, arg |-> cfg,
                       write |-> attempted(cfg, write)]
       /\ file' = out.file
       /\ config' = out.cache
  /\ UNCHANGED <<now, singleton, otherConfig, clientVars, forcedInFlight, nextTok, callVars>>

\* partial records updateConfig is called with: a new endpoint, a new
\* timeout, a field set to undefined, a token replaced while the email is
\* set to undefined, the endpoint set to undefined, and a timeout the
\* schema rejects
PartialUpdates ==
  {[endpoint |-> Str(2)],
   [endpoint |-> Undefined],
   [timeout |-> Num(99)],
   [firebaseUid |-> Undefined],
   [firebaseIdToken |-> Str(2), userEmail |-> Undefined],
   [timeout |-> Num(0)]}

\* updateConfig(updates): merge onto the cached record, drop undefined
\* values, saveConfig
UpdateConfig(updates, write) ==
  /\ updates \in PartialUpdates
  /\ write \in WriteOutcomes
  /\ LET out == saveConfig(file, config, MergeConfig(config, updates), write) IN
       /\ lastCall' = [op |-> "updateConfig", threw |-> out.threw,
                       arg |-> updates,
                       write |-> attempted(MergeConfig(config, updates), write)]
       /\ file' = out.file
       /\ config' = out.cache
  /\ UNCHANGED <<now, singleton, otherConfig, clientVars, forcedInFlight, nextTok, callVars>>

\* clearTokens(), also reached as AuthManager.logout()
ClearTokens(write) ==
  /\ write \in WriteOutcomes
  /\ LET out == saveConfig(file, config, MergeConfig(config, ClearUpdate), write) IN
       /\ lastCall' = [op |-> "clearTokens", threw |-> out.threw,
                       write |-> attempted(MergeConfig(config, ClearUpdate), write)]
       /\ file' = out.file
       /\ config' = out.cache
  /\ UNCHANGED <<now, singleton, otherConfig, clientVars, forcedInFlight, nextTok, callVars>>

\* arguments updateFirebaseTokens is called with: token and uid strings,
\* empty or not; no email, a string that is no e-mail address, an address;
\* the provider's lifetime and a short one
TokenArgs ==
  [idToken : {Str(0), Str(2)}, refreshToken : {Str(2)}, expiresIn : {DefaultExpiresIn, 60},
   uid : {Str(0), Str(1)}, email : {Undefined, Str(0), Str(1)}]

\* updateFirebaseTokens(idToken, refreshToken, expiresIn, uid, email)
UpdateFirebaseTokens(a, write) ==
  /\ a \in TokenArgs
  /\ write \in WriteOutcomes
  /\ LET updates == TokensUpdate(a.idToken, a.refreshToken, a.expiresIn, a.uid,
                                 a.email, now)
         out == saveConfig(file, config, MergeConfig(config, updates), write) IN
       /\ lastCall' = [op |-> "updateFirebaseTokens", threw |-> out.threw,
                       arg |-> a,
                       write |-> attempted(MergeConfig(config, updates), write)]
       /\ file' = out.file
       /\ config' = out.cache
  /\ UNCHANGED <<now, singleton, otherConfig, clientVars, forcedInFlight, nextTok, callVars>>

\* configManager.isAuthenticated() and authManager.isAuthenticated() asked
\* one after the other; both are synchronous reads of the cached record
IsAuthenticated ==
  /\ lastCall' = [op |-> "isAuthenticated", threw |-> FALSE,
                  value |-> isAuthenticated(config),
                  authManager |-> AuthManager_isAuthenticated(config)]
  /\ UNCHANGED <<config, file, now, singleton, otherConfig, clientVars, forcedInFlight, nextTok,
                 callVars>>

\* The store over any file, and one pipeline call over the record it then
\* holds: the file is whatever it is when the store is opened. None of these
\* records holds a refresh token, so no refresh is started or awaited.
InitStore ==
  /\ file \in FileContents
  /\ config = loadConfig(file).value
  /\ lastCall = NoCall
  /\ InitClient

NextStore ==
  \/ pc[1] = "idle" /\ \E content \in FileContents : ExternalWrite(content)
  \/ pc[1] = "idle" /\ Open
  \/ pc[1] = "idle" /\ Reload
  \/ pc[1] = "idle" /\ \E cfg \in StoreRecords \cup InvalidRecords :
                         SaveConfig(cfg, "written")
  \/ IsAuthenticated
  \/ IssueCall(1)
  \/ ResponseOk(1)
  \/ \E data \in ErrorBodies : ResponseError(1, data)
  \/ ResponseNetworkFailure(1)
  \/ Response401(1)
  \/ Return(1)
  \/ Tick

SpecStore == InitStore /\ [][NextStore]_vars

\* getInstance that constructs a client whenever a manager is passed
getInstance_alwaysNew(s, cm) ==
  IF cm # 0
  THEN [threw |-> FALSE, value |-> s.built + 1,
        singleton |-> [instance |-> s.built + 1, built |-> s.built + 1,
                       sinceReset |-> s.sinceReset + 1, configManager |-> cm]]
  ELSE IF s.instance = 0 THEN [threw |-> TRUE, value |-> 0, singleton |-> s]
  ELSE [threw |-> FALSE, value |-> s.instance, singleton |-> s]

\* APIClient.getInstance(configManager?): cm = 0 stands for no argument;
\* instances are numbered in the order they are constructed
getInstance(s, cm) ==
  IF s.instance = 0 /\ cm # 0
  THEN [threw |-> FALSE, value |-> s.built + 1,
        singleton |-> [instance |-> s.built + 1, built |-> s.built + 1,
                       sinceReset |-> s.sinceReset + 1, configManager |-> cm]]
  ELSE IF s.instance = 0 THEN [threw |-> TRUE, value |-> 0, singleton |-> s]
  ELSE [threw |-> FALSE, value |-> s.instance, singleton |-> s]

\* APIClient.reset(): APIClient.instance = null
reset(s) == [s EXCEPT !.instance = 0, !.sinceReset = 0, !.configManager = 0]

GetInstance(cm) ==
  /\ cm \in Managers \cup {0}
  /\ getInstance(singleton, cm).singleton.built <= MaxInstances
  /\ LET out == getInstance(singleton, cm) IN
       /\ lastCall' = [op |-> "getInstance", threw |-> out.threw, arg |-> cm,
                       value |-> out.value]
       /\ singleton' = out.singleton
  /\ UNCHANGED <<config, file, now, clientVars, forcedInFlight, nextTok, callVars, otherConfig>>

Reset ==
  /\ lastCall' = [op |-> "reset", threw |-> FALSE]
  /\ singleton' = reset(singleton)
  /\ UNCHANGED <<config, file, now, clientVars, forcedInFlight, nextTok, callVars, otherConfig>>

\* FirebaseAuthHelpers.isValidEmail: the regular expression test; Str(0)
\* stands for a string that is no e-mail address
isValidEmail(email) == email[1] = "str" /\ email[2] # 0

\* what authenticateWithEmailPassword gives back: a FirebaseAuthError, an
\* error of another class, or the sign-in result (whose email the schema may
\* reject, and whose fields are undefined when the answer had none)
AuthAnswers ==
  {[kind |-> "error", authError |-> TRUE], [kind |-> "error", authError |-> FALSE],
   [kind |-> "ok", idToken |-> Str(2), refreshToken |-> Str(2), uid |-> Str(1),
    email |-> Str(1)],
   [kind |-> "ok", idToken |-> Str(2), refreshToken |-> Str(2), uid |-> Str(1),
    email |-> Str(0)],
   [kind |-> "ok", idToken |-> Undefined, refreshToken |-> Undefined,
    uid |-> Undefined, email |-> Undefined]}

\* the error text of a saveConfig that threw
SaveError(cfg) == IF SchemaOK(cfg) THEN "write failed" ELSE "Invalid configuration"

\* login whose body is not wrapped in try/catch
login_noCatch(f, cache, email, password, answer, write, t) ==
  LET cfg == MergeConfig(cache, TokensUpdate(answer.idToken, answer.refreshToken,
                                             DefaultExpiresIn, answer.uid,
                                             answer.email, t))
      out == saveConfig(f, cache, cfg, write)
      base == [threw |-> FALSE, success |-> FALSE, network |-> FALSE,
               file |-> f, cache |-> cache]
  IN IF ~isValidEmail(email) THEN [error |-> "Invalid email format"] @@ base
     ELSE IF ~Truthy(password) THEN [error |-> "Password is required"] @@ base
     ELSE IF answer.kind = "error"
       THEN [threw |-> TRUE, network |-> TRUE, error |-> "exchange failed"] @@ base
     ELSE IF out.threw
       THEN [threw |-> TRUE, network |-> TRUE, error |-> SaveError(cfg),
             file |-> out.file, cache |-> out.cache] @@ base
     ELSE [success |-> TRUE, network |-> TRUE, error |-> "none",
           file |-> out.file, cache |-> out.cache] @@ base

\* AuthManager.login(email, password) over the record cache and the file f,
\* given the identity exchange's answer and what becomes of the write
login(f, cache, email, password, answer, write, t) ==
  LET cfg == MergeConfig(cache, TokensUpdate(answer.idToken, answer.refreshToken,
                                             DefaultExpiresIn, answer.uid,
                                             answer.email, t))
      out == saveConfig(f, cache, cfg, write)
      base == [threw |-> FALSE, success |-> FALSE, network |-> FALSE,
               file |-> f, cache |-> cache]
  IN IF ~isValidEmail(email) THEN [error |-> "Invalid email format"] @@ base
     ELSE IF ~Truthy(password) THEN [error |-> "Password is required"] @@ base
     ELSE IF answer.kind = "error"
       THEN [network |-> TRUE, error |-> "exchange failed"] @@ base
     ELSE IF out.threw
       THEN [network |-> TRUE, error |-> SaveError(cfg),
             file |-> out.file, cache |-> out.cache] @@ base
     ELSE [success |-> TRUE, network |-> TRUE, error |-> "none",
           file |-> out.file, cache |-> out.cache] @@ base

AuthManagerLogin(email, password, answer, write) ==
  /\ email \in {Str(0), Str(1)}
  /\ password \in {Str(0), Str(1)}
  /\ answer \in AuthAnswers
  /\ write \in WriteOutcomes
  /\ LET out == login(file, config, email, password, answer, write, now) IN
       /\ lastCall' = [op |-> "login", threw |-> out.threw, success |-> out.success,
                       error |-> out.error, network |-> out.network,
                       arg |-> [email |-> email, password |-> password],
                       answer |-> answer, write |-> write]
       /\ file' = out.file
       /\ config' = out.cache
  /\ UNCHANGED <<now, singleton, otherConfig, clientVars, forcedInFlight, nextTok, callVars>>

\* what verifyIdToken meets: the backend confirms the token, answers 200
\* without success, answers 401, or cannot be reached; each of the last
\* three leaves verifyIdToken with a FirebaseAuthError
VerifyAnswers == {"valid", "rejected", "unauthorized", "networkFailure"}

\* verifyToken that leaves the record alone when verifyIdToken failed
verifyToken_keepsTokens(f, cache, answer, write) ==
  LET base == [threw |-> FALSE, valid |-> FALSE, network |-> FALSE,
               file |-> f, cache |-> cache]
  IN IF ~isAuthenticated(cache) THEN [error |-> "Not authenticated"] @@ base
     ELSE IF ~Truthy(Get(cache, "firebaseIdToken"))
       THEN [error |-> "No Firebase ID token available"] @@ base
     ELSE IF answer = "valid"
       THEN [valid |-> TRUE, network |-> TRUE, error |-> "none"] @@ base
     ELSE [network |-> TRUE, error |-> answer] @@ base

\* AuthManager.verifyToken() over the record cache and the file f
verifyToken(f, cache, answer, write) ==
  LET cfg == MergeConfig(cache, ClearUpdate)
      out == saveConfig(f, cache, cfg, write)
      base == [threw |-> FALSE, valid |-> FALSE, network |-> FALSE,
               file |-> f, cache |-> cache]
  IN IF ~isAuthenticated(cache) THEN [error |-> "Not authenticated"] @@ base
     ELSE IF ~Truthy(Get(cache, "firebaseIdToken"))
       THEN [error |-> "No Firebase ID token available"] @@ base
     ELSE IF answer = "valid"
       THEN [valid |-> TRUE, network |-> TRUE, error |-> "none"] @@ base
     ELSE IF out.threw
       THEN [network |-> TRUE, error |-> SaveError(cfg),
             file |-> out.file, cache |-> out.cache] @@ base
     ELSE [network |-> TRUE, error |-> answer,
           file |-> out.file, cache |-> out.cache] @@ base

VerifyToken(answer, write) ==
  /\ answer \in VerifyAnswers
  /\ write \in WriteOutcomes
  /\ LET out == verifyToken(file, config, answer, write) IN
       /\ lastCall' = [op |-> "verifyToken", threw |-> out.threw, valid |-> out.valid,
                       error |-> out.error, network |-> out.network,
                       answer |-> answer, write |-> write]
       /\ file' = out.file
       /\ config' = out.cache
  /\ UNCHANGED <<now, singleton, otherConfig, clientVars, forcedInFlight, nextTok, callVars>>

\* AuthManager's login and verifyToken, one call after the other, over any
\* file the store was opened on
NextAuth ==
  \/ \E email, password \in {Str(0), Str(1)} : \E answer \in AuthAnswers :
       \E write \in WriteOutcomes : AuthManagerLogin(email, password, answer, write)
  \/ \E answer \in VerifyAnswers : \E write \in WriteOutcomes : VerifyToken(answer, write)
  \/ Tick

SpecAuth == InitStore /\ [][NextAuth]_vars

\* get config() of the second ConfigManager: what it holds, read from the
\* file when it holds nothing yet
otherCurrent(f, other) == IF other = NotRead THEN loadConfig(f).value ELSE other

\* the second ConfigManager reads its record (any use of .config)
OtherRead ==
  /\ otherConfig = NotRead
  /\ otherConfig' = otherCurrent(file, otherConfig)
  /\ lastCall' = [op |-> "otherRead", threw |-> FALSE]
  /\ UNCHANGED <<config, file, now, singleton, clientVars, forcedInFlight, nextTok,
                 callVars>>

\* updateConfig(updates) on the second ConfigManager
OtherUpdateConfig(updates) ==
  /\ updates \in PartialUpdates
  /\ LET cur == otherCurrent(file, otherConfig)
         out == saveConfig(file, cur, MergeConfig(cur, updates), "written") IN
       /\ lastCall' = [op |-> "otherUpdateConfig", threw |-> out.threw,
                       arg |-> updates,
                       write |-> attempted(MergeConfig(cur, updates), "written")]
       /\ file' = out.file
       /\ otherConfig' = out.cache
  /\ UNCHANGED <<config, now, singleton, clientVars, forcedInFlight, nextTok, callVars>>

\* Two ConfigManagers on one directory, each calling updateConfig; the first
\* has read its record, the second reads when it is first used
InitTwoStores ==
  /\ file \in {FileAbsent, saved(DEFAULT_CONFIG), saved(RecordAfterLogin(StartTime))}
  /\ config = loadConfig(file).value
  /\ lastCall = NoCall
  /\ InitClient

NextTwoStores ==
  \/ \E updates \in PartialUpdates : UpdateConfig(updates, "written")
  \/ \E updates \in PartialUpdates : OtherUpdateConfig(updates)
  \/ OtherRead

SpecTwoStores == InitTwoStores /\ [][NextTwoStores]_vars

\* A process started under any environment: the store reads its record and
\* updateConfig is called on it
InitEnv ==
  /\ file \in {FileAbsent, FileNotJSON, saved(RecordAfterLogin(StartTime))}
              \cup {saved(r) : r \in InvalidRecords}
  /\ \E env \in Environments : config = loadConfigEnv(file, env).value
  /\ lastCall = NoCall
  /\ InitClient

NextEnv ==
  \/ \E updates \in PartialUpdates : UpdateConfig(updates, "written")
  \/ ClearTokens("written")

SpecEnv == InitEnv /\ [][NextEnv]_vars

\* The store's token operations while time passes
NextTokens ==
  \/ \E a \in TokenArgs : \E write \in WriteOutcomes : UpdateFirebaseTokens(a, write)
  \/ \E write \in WriteOutcomes : ClearTokens(write)
  \/ Open
  \/ Tick

SpecTokens == InitStore /\ [][NextTokens]_vars

\* The process from its start: no client exists; getInstance and reset are
\* called in any order while the record is saved now and then.
InitSingleton ==
  /\ file \in FileContents
  /\ config = loadConfig(file).value
  /\ lastCall = NoCall
  /\ singleton = NoInstance
  /\ InitRequests

NextSingleton ==
  \/ \E cm \in Managers \cup {0} : GetInstance(cm)
  \/ Reset
  \/ \E cfg \in SaveArgs : SaveConfig(cfg, "written")

SpecSingleton == InitSingleton /\ [][NextSingleton]_vars

\* The store's own operations, one call after the other, each on the record
\* and file the previous one left; Open is a newly constructed ConfigManager
\* over the same directory.
NextManager ==
  \/ \E cfg \in SaveArgs : \E write \in WriteOutcomes : SaveConfig(cfg, write)
  \/ \E updates \in PartialUpdates : \E write \in WriteOutcomes :
       UpdateConfig(updates, write)
  \/ \E write \in WriteOutcomes : ClearTokens(write)
  \/ Open

SpecManager == InitStore /\ [][NextManager]_vars

\* ------------------------------------------------------------ claims
PendingIds == {id \in 1..Len(refreshes) : refreshes[id].status = "pending"}

Stale(cfg, t) ==
  needsFirebaseTokenRefresh(cfg, t) /\ Truthy(getFirebaseRefreshToken(cfg))

Issued(c) == pc[c] = "idle" /\ pc'[c] # "idle"

TokensAbsent(cfg) == \A k \in TokenFields : ~Has(cfg, k)

\* C1: pipeline calls issued while the token is stale and a refresh token is
\* stored share one refreshIdToken call: the first starts it, the others join
\* it, so at most one is outstanding; none of them is dispatched before that
\* refresh has settled (and then only if it resolved); and a refresh that
\* resolves leaves a stored idToken different from the one before.
C1_OneRefreshStep ==
  /\ \A c \in Calls :
       (Issued(c) /\ Stale(config, now)) =>
         /\ pc'[c] = "reqAwait"
         /\ IF PendingIds = {}
            THEN Len(refreshes') = Len(refreshes) + 1
                 /\ awaiting'[c] = Len(refreshes')
            ELSE refreshes' = refreshes /\ awaiting'[c] \in PendingIds
  /\ \A c \in Calls :
       (pc[c] = "reqAwait" /\ pc'[c] = "sent") =>
         refreshes[awaiting[c]].status = "resolved"
  /\ \A id \in 1..Len(refreshes) :
       (refreshes[id].status = "pending" /\ refreshes'[id].status = "resolved") =>
         Get(config', "firebaseIdToken") # Get(config, "firebaseIdToken")

C1_SingleFlightRefresh ==
  [](Cardinality(PendingIds) <= 1) /\ [][C1_OneRefreshStep]_vars

\* C1 witness: two calls were issued while the token was stale; the single
\* refresh resolved; call 1 went out with the new token, call 2 joined the
\* same refresh and is about to be released.
C1_Witness ==
  /\ Len(refreshes) = 1
  /\ refreshes[1].status = "resolved"
  /\ pc[1] = "sent" /\ resps[1] = <<>> /\ hdr[1] = Bearer(Str(2))
  /\ pc[2] = "reqAwait" /\ awaiting[2] = 1

\* C2 (as claimed): a logical call is dispatched at most twice.
C2_AtMostTwoSends == \A c \in Calls : sends(c) <= 2

\* C3 (as claimed): a second 401, on the retried attempt, ends the call with
\* 'Authentication failed' (401) and leaves the store unauthenticated.
C3_Second401Step ==
  \A c \in Calls :
    (resps[c] = <<401>> /\ resps'[c] = <<401, 401>>) =>
      /\ pc'[c] = "done"
      /\ result'[c] = AuthenticationFailed
      /\ ~isAuthenticated(config')

C3_Second401FailsAuthentication == [][C3_Second401Step]_vars

\* C4: a call whose first attempt got 401 and whose retried attempt got 200
\* is over, its caller has the successful result, and it was dispatched
\* exactly twice (one retry).
C4_RetrySuccessReturned ==
  \A c \in Calls :
    resps[c] = <<401, 200>> =>
      pc[c] = "done" /\ result[c] = Success /\ sends(c) = 2

\* C4 witness: the first attempt got 401, the one refresh of the run resolved
\* and stored a new token, and the retry got 200.
C4_Witness ==
  /\ resps[1] = <<401, 200>>
  /\ result[1] = Success
  /\ Len(refreshes) = 1 /\ refreshes[1].status = "resolved"
  /\ Get(config, "firebaseIdToken") = Str(2)
  /\ pc[2] = "idle"

\* C5: when a refresh is rejected (the identity exchange failed, or storing
\* its result threw) every token field is absent from the record afterwards,
\* the rejection carries the cause, and every caller awaiting that refresh
\* ends with an error instead of dispatching.
C5_RefreshFailureStep ==
  /\ \A id \in 1..Len(refreshes) :
       (refreshes[id].status = "pending" /\ refreshes'[id].status = "rejected") =>
         /\ TokensAbsent(config')
         /\ refreshes'[id].details \in
              {"Failed to refresh token", "Invalid configuration"}
  /\ \A c \in Calls :
       (/\ pc[c] \in {"reqAwait", "respAwait"}
        /\ refreshes[awaiting[c]].status = "rejected"
        /\ pc'[c] # pc[c]) =>
         /\ pc'[c] = "done"
         /\ result'[c] \in
              {RefreshFailedRequestError(config, refreshes[awaiting[c]].details),
               AuthenticationFailed}
         /\ TokensAbsent(config')

C6_TokenAndUidTogether ==
  Has(config, "firebaseIdToken") <=> Has(config, "firebaseUid")

\* C7 (as claimed): a stored expiry comes with a non-empty idToken.
C7_ExpiryImpliesToken ==
  Has(config, "firebaseTokenExpiresAt") => Truthy(Get(config, "firebaseIdToken"))

\* C8: every caller of refreshTokenIfNeeded that waits on a refresh, whether
\* it started or joined it, is released by that refresh's outcome: resolved
\* lets it go on (dispatch, or retry), rejected ends it with an error; and a
\* refresh is only ever started when none is outstanding.
C8_SharedOutcomeStep ==
  /\ \A c \in Calls :
       (pc[c] \in {"reqAwait", "respAwait"} /\ pc'[c] # pc[c]) =>
         /\ refreshes[awaiting[c]].status # "pending"
         /\ refreshes[awaiting[c]].status = "rejected" <=>
              (pc'[c] = "done" /\
               result'[c] \in
                 {RefreshFailedRequestError(config, refreshes[awaiting[c]].details),
                  AuthenticationFailed})
  /\ Len(refreshes') > Len(refreshes) => PendingIds = {}
  /\ \A c \in Calls :
       (Issued(c) /\ PendingIds # {}) =>
         pc'[c] = "reqAwait" /\ awaiting'[c] \in PendingIds

C9_MarkerInv ==
  (isRefreshing \/ refreshPromise # 0) => refreshPromise \in PendingIds

C9_NewAttemptStep ==
  \A c \in Calls :
    (Issued(c) /\ Stale(config, now) /\ PendingIds = {}) =>
      /\ Len(refreshes') = Len(refreshes) + 1
      /\ isRefreshing' /\ refreshPromise' = Len(refreshes')

C10_First401Step ==
  \A c \in Calls :
    (/\ pc[c] = "sent" /\ resps[c] = <<>> /\ resps'[c] = <<401>>
     /\ ~isRefreshing
     /\ Truthy(getFirebaseRefreshToken(config))) =>
      Len(refreshes') = Len(refreshes) + 1 /\ pc'[c] = "respAwait"

C10_ReactiveRefreshUnconditional == [][C10_First401Step]_vars

\* C11 (as claimed): needsFirebaseTokenRefresh is true exactly when an expiry
\* is stored and now >= expiry - 300000, whatever number the expiry is.
C11_NeedsRefreshIffStale ==
  needsFirebaseTokenRefresh(config, now) <=>
    (Has(config, "firebaseTokenExpiresAt") /\
     now >= config["firebaseTokenExpiresAt"][2] - bufferTime)

\* C12: a request is dispatched from the request-phase await only once the
\* awaited refresh has resolved, and every dispatch made while a token is
\* stored carries 'Bearer ' followed by the token stored at that moment; a
\* refresh that stores a token stores one that differs from the one before,
\* so the request released by it does not carry the pre-refresh token.
C12_HeadersAfterAwaitStep ==
  /\ \A c \in Calls :
       (pc[c] = "reqAwait" /\ pc'[c] = "sent") =>
         refreshes[awaiting[c]].status = "resolved"
  /\ \A c \in Calls :
       (pc[c] # "sent" /\ pc'[c] = "sent" /\ Truthy(Get(config, "firebaseIdToken"))) =>
         /\ config' = config
         /\ hdr'[c] = Bearer(config["firebaseIdToken"])
  /\ \A id \in 1..Len(refreshes) :
       (/\ refreshes[id].status = "pending"
        /\ refreshes'[id].status = "resolved"
        /\ Truthy(Get(config', "firebaseIdToken"))) =>
         /\ config'["firebaseIdToken"] # Get(config, "firebaseIdToken")
         /\ \A c \in Calls : hdr'[c] # Bearer(config'["firebaseIdToken"])

C12_CredentialReadAfterAwait == [][C12_HeadersAfterAwaitStep]_vars

\* C12 witness: call 1 waited for the refresh it started while the stored
\* token was token 1, and went out with the token the refresh stored.
C12_Witness ==
  /\ pc[1] = "sent" /\ resps[1] = <<>>
  /\ Len(refreshes) = 1 /\ refreshes[1].status = "resolved"
  /\ Truthy(Get(config, "firebaseIdToken"))
  /\ hdr[1] = Bearer(config["firebaseIdToken"])
  /\ hdr[1] # Bearer(Str(1))
  /\ pc[2] = "idle"

\* C13 (as claimed): getApiHeaders() has an Authorization header exactly when
\* the record has a firebaseIdToken field, its value is then Bearer + token,
\* and without a token the headers are exactly Content-Type and User-Agent.
C13_AuthorizationIffTokenStored ==
  LET h == getApiHeaders(config) IN
    /\ ("Authorization" \in DOMAIN h) <=> Has(config, "firebaseIdToken")
    /\ Has(config, "firebaseIdToken") =>
         h = BaseHeaders @@ ("Authorization" :> Bearer(config["firebaseIdToken"]))
    /\ ~Has(config, "firebaseIdToken") => h = BaseHeaders

\* the record holds a token that is not the empty string
C13_NonEmptyToken(cfg) ==
  Has(cfg, "firebaseIdToken") /\ cfg["firebaseIdToken"] # Str(0)

C13_HeadersInv ==
  LET h == getApiHeaders(config) IN
    /\ ("Authorization" \in DOMAIN h) <=> C13_NonEmptyToken(config)
    /\ C13_NonEmptyToken(config) =>
         h = BaseHeaders @@ ("Authorization" :> Bearer(config["firebaseIdToken"]))
    /\ ~C13_NonEmptyToken(config) => h = BaseHeaders

C13_UnauthenticatedSendStep ==
  \A c \in Calls :
    (/\ Issued(c)
     /\ ~C13_NonEmptyToken(config)
     /\ ~needsFirebaseTokenRefresh(config, now))
    => /\ pc'[c] = "sent"
       /\ hdr'[c] = Undefined
       /\ result'[c] = NoResult

\* C13 (amended): getApiHeaders() has an Authorization header exactly when a
\* non-empty firebaseIdToken is stored, and its value is then Bearer + token;
\* otherwise the headers are exactly Content-Type and User-Agent, and a
\* pipeline call issued in that state with no refresh due is dispatched
\* without an Authorization header instead of failing locally.
C13_AuthorizationIffNonEmptyToken ==
  []C13_HeadersInv /\ [][C13_UnauthenticatedSendStep]_vars

\* C13 witness: the record holds the empty string as token, getApiHeaders
\* returns the two base headers, and the call has been dispatched without an
\* Authorization header.
C13_Witness ==
  /\ Get(config, "firebaseIdToken") = Str(0)
  /\ getApiHeaders(config) = BaseHeaders
  /\ pc[1] = "sent"
  /\ resps[1] = <<>>
  /\ hdr[1] = Undefined

\* C14 (as claimed): isAuthenticated() is true exactly when the record has
\* both a firebaseIdToken and a firebaseUid field.
C14_AuthenticatedIffBothPresent ==
  isAuthenticated(config) <=>
    (Has(config, "firebaseIdToken") /\ Has(config, "firebaseUid"))

C14_BothNonEmpty(cfg) ==
  /\ Has(cfg, "firebaseIdToken") /\ cfg["firebaseIdToken"] # Str(0)
  /\ Has(cfg, "firebaseUid") /\ cfg["firebaseUid"] # Str(0)

C14_QueryStep ==
  (lastCall' # lastCall /\ lastCall'.op = "isAuthenticated")
  => /\ lastCall'.value = C14_BothNonEmpty(config)
     /\ lastCall'.authManager = lastCall'.value
     /\ UNCHANGED <<config, file, clientVars, forcedInFlight, callVars>>

\* C14 (amended): isAuthenticated() is true exactly when firebaseIdToken and
\* firebaseUid are both stored and neither is the empty string; asking it
\* sends no request, starts no refresh and changes neither the record nor
\* the file, and AuthManager.isAuthenticated() gives the same answer.
C14_AuthenticatedIffBothNonEmpty ==
  /\ [](/\ isAuthenticated(config) <=> C14_BothNonEmpty(config)
        /\ AuthManager_isAuthenticated(config) = isAuthenticated(config))
  /\ [][C14_QueryStep]_vars

\* C14 witness: both managers were asked while a request was in flight over a
\* record with a token and an empty uid, and both answered false.
C14_Witness ==
  /\ lastCall.op = "isAuthenticated"
  /\ lastCall.value = FALSE
  /\ lastCall.authManager = FALSE
  /\ Get(config, "firebaseIdToken") = Str(1)
  /\ Get(config, "firebaseUid") = Str(0)
  /\ pc[1] = "sent"

\* a call is issued while a refresh is due, no refresh token is stored and no
\* refresh is in flight
C15_IssuedWithoutCredential(c) ==
  /\ Issued(c)
  /\ ~(isRefreshing /\ refreshPromise # 0)
  /\ needsFirebaseTokenRefresh(config, now)
  /\ ~Truthy(getFirebaseRefreshToken(config))

C15_NoCredentialStep ==
  \A c \in Calls :
    C15_IssuedWithoutCredential(c)
    => /\ refreshes' = refreshes
       /\ UNCHANGED <<isRefreshing, refreshPromise>>
       /\ pc'[c] = "done"
       /\ resps'[c] = <<>>
       /\ domainOperation(result'[c], config').name = "APIError"
       /\ domainOperation(result'[c], config').statusCode = Num(401)

\* C15 (as claimed): a call issued while a refresh is due and no refresh
\* token is stored fails before dispatch, no refreshIdToken call is made and
\* the in-flight marker is not created, and the error the caller of the
\* domain operation receives carries status 401.
C15_NoCredentialIs401 == [][C15_NoCredentialStep]_vars

C16_ExchangeSettlesStep ==
  \A id \in PendingIds :
    /\ refreshes'[id].status = "resolved"
       => /\ Truthy(Get(config', "firebaseIdToken"))
          /\ Get(config', "firebaseIdToken") # Get(config, "firebaseIdToken")
    /\ refreshes'[id].status = "rejected" => TokensAbsent(config')

\* C16 (as claimed): a refresh exchange settles in one of two ways: it
\* resolves, and then a new bearer token has been stored, or it is a
\* refresh-failed outcome, and then every token field has been cleared; an
\* answer that carries no new bearer token never resolves.
C16_MalformedAnswerFailsRefresh == [][C16_ExchangeSettlesStep]_vars

\* call c receives a response of the given status in this step
C17_Receives(c, status) ==
  pc[c] = "sent" /\ resps'[c] = Append(resps[c], status)

C17_RemoteErrorStep ==
  \A c \in Calls :
    C17_Receives(c, 500)
    => /\ pc'[c] = "done"
       /\ sends(c)' = sends(c)
       /\ LET e == domainOperation(result'[c], config') IN
            /\ e.name = "APIError"
            /\ e.statusCode = Num(500)
            /\ \E data \in ErrorBodies :
                 /\ e.message = extractErrorMessage(data)
                 /\ e.details = extractErrorDetails(data)

\* C17 (as claimed): a non-2xx response other than 401 ends the call without
\* another dispatch, and the error the caller of the domain operation
\* receives is an APIError with the response's status code and the message
\* and details extracted from its body.
C17_RemoteErrorCarriesStatus == [][C17_RemoteErrorStep]_vars

\* how a caller can tell errors apart: class name, whether a status code is
\* set, and the leading part of the message
C18_Kind(e) == <<e.name, e.statusCode # Undefined, Head(e.message)>>

C18_NetworkFailureStep ==
  \A c \in Calls :
    C17_Receives(c, 0)
    => /\ pc'[c] = "done"
       /\ sends(c)' = sends(c)
       /\ config' = config
       /\ file' = file
       /\ LET e == domainOperation(result'[c], config') IN
            /\ e.name = "APIError"
            /\ \E i \in DOMAIN e.message :
                 e.message[i] = ToString(config["endpoint"])
            /\ \A data \in ErrorBodies :
                 C18_Kind(e) #
                   C18_Kind(domainOperation(RemoteError(500, data, config),
                                            config))

\* C18 (as claimed): a request that gets no response ends the call without
\* another dispatch and leaves the record and the file as they were; the
\* error the caller of the domain operation receives names the configured
\* endpoint in its message and is of a kind no remote rejection has.
C18_NetworkFailureDistinctKind == [][C18_NetworkFailureStep]_vars

\* a step in which the store reads config.json (Open)
C19_LoadStep ==
  /\ lastCall'.op = "loadConfig"
  /\ UNCHANGED <<file, now, clientVars, callVars>>
  /\ <<lastCall, config>>' # <<lastCall, config>>

\* config.json is missing, unreadable, not JSON, or fails the schema
C19_Corrupted(f) == f.kind # "json" \/ ~SchemaOK(f.data)

C19_LoadNeverThrowsStep ==
  C19_LoadStep
  => /\ ~lastCall'.threw
     /\ C19_Corrupted(file)
        => /\ config' = DEFAULT_CONFIG
           /\ DOMAIN config' = {"endpoint", "timeout"}
           /\ ~isAuthenticated(config')

\* C19: loadConfig never throws, and over a file that is absent, unreadable,
\* not JSON or schema-invalid it returns DEFAULT_CONFIG (endpoint and
\* timeout, no token field), so the store then reports isAuthenticated()
\* false.
C19_LoadConfigNeverThrows == [][C19_LoadNeverThrowsStep]_vars

\* C19 witness: the store was opened over a file that is not JSON and holds
\* the default record.
C19_Witness ==
  /\ lastCall.op = "loadConfig"
  /\ ~lastCall.threw
  /\ file = FileNotJSON
  /\ config = DEFAULT_CONFIG
  /\ ~isAuthenticated(config)

\* a step in which saveConfig is called with a record the schema rejects
C20_InvalidSaveStep ==
  /\ lastCall'.op = "saveConfig"
  /\ ~SchemaOK(lastCall'.arg)
  /\ UNCHANGED <<now, clientVars, callVars>>
  /\ <<lastCall, config>>' # <<lastCall, config>>

C20_InvalidSaveRejectedStep ==
  C20_InvalidSaveStep
  => /\ lastCall'.threw
     /\ file' = file
     /\ config' = config

\* C20: saveConfig with a record that fails schema validation throws, and
\* config.json and the cached record are afterwards what they were before.
C20_InvalidSaveChangesNothing == [][C20_InvalidSaveRejectedStep]_vars

\* C20 witness: saveConfig was called with a schema-invalid record and
\* threw, while file and cache hold the same signed-in record.
C20_Witness ==
  /\ lastCall.op = "saveConfig"
  /\ ~SchemaOK(lastCall.arg)
  /\ lastCall.threw
  /\ file.kind = "json"
  /\ file.data = config
  /\ isAuthenticated(config)

\* the call made in this step is a saveConfig, updateConfig or clearTokens
\* whose write to config.json failed
C21_WriteFailed ==
  /\ lastCall'.op \in {"saveConfig", "updateConfig", "clearTokens"}
  /\ lastCall'.write \in {"refused", "truncated"}

C21_WriteFailureStep ==
  C21_WriteFailed
  => /\ lastCall'.threw
     /\ config' = config
     /\ isAuthenticated(config') = isAuthenticated(config)
     /\ getApiHeaders(config') = getApiHeaders(config)

\* C21: when writeFileSync fails inside saveConfig (called directly, from
\* updateConfig or from clearTokens) the call throws and the cached record,
\* and with it isAuthenticated() and getApiHeaders(), is what it was before.
C21_WriteFailureKeepsCache == [][C21_WriteFailureStep]_vars

\* C21 witness: an updateConfig that replaces the token failed while
\* writing and left the file cut short; the cached record is still signed in
\* with the earlier token.
C21_Witness ==
  /\ lastCall.op = "updateConfig"
  /\ "firebaseIdToken" \in DOMAIN lastCall.arg
  /\ lastCall.write = "truncated"
  /\ lastCall.threw
  /\ file = FileNotJSON
  /\ isAuthenticated(config)
  /\ getApiHeaders(config)["Authorization"] = Bearer(Str(1))

\* the call before this step stored a record, and in this step a new
\* ConfigManager over the same directory reads it
C22_ReloadAfterStore ==
  /\ lastCall.op \in {"saveConfig", "updateConfig", "clearTokens"}
  /\ ~lastCall.threw
  /\ lastCall'.op = "loadConfig"

C22_RoundTripStep ==
  C22_ReloadAfterStore
  => /\ ~lastCall'.threw
     /\ config' = config
     /\ lastCall.op = "saveConfig"
        => /\ \A k \in StringFields \cup NumberFields :
                Get(config', k) = Get(lastCall.arg, k)
           /\ isAuthenticated(config') = isAuthenticated(lastCall.arg)
           /\ Get(config', "firebaseUid") = Get(lastCall.arg, "firebaseUid")

C23_Fields == StringFields \cup NumberFields

\* fields the schema fills in when they are missing
C23_Defaulted == {"endpoint", "timeout"}

\* what an updateConfig that returned did to the fields in removable when
\* they are given as undefined, and to all others
C23_UpdateEffect(removable) ==
  /\ \A k \in C23_Fields :
       /\ k \notin DOMAIN lastCall'.arg => Get(config', k) = Get(config, k)
       /\ (k \in DOMAIN lastCall'.arg /\ lastCall'.arg[k] = Undefined)
          => IF k \in removable THEN ~Has(config', k)
             ELSE Get(config', k) = DEFAULT_CONFIG[k]
       /\ (k \in DOMAIN lastCall'.arg /\ lastCall'.arg[k] # Undefined)
          => Get(config', k) = lastCall'.arg[k]
  /\ DOMAIN config' \subseteq C23_Fields
  /\ file' = saved(config')
  /\ (lastCall = [op |-> "updateConfig", threw |-> FALSE,
                  arg |-> [endpoint |-> Str(2)], write |-> "written"]
      /\ lastCall'.arg = [timeout |-> Num(99)])
     => config'["endpoint"] = Str(2) /\ config'["timeout"] = Num(99)

C23_UpdateReturned == lastCall'.op = "updateConfig" /\ ~lastCall'.threw

\* C23 (as claimed): an updateConfig(partial) that returns leaves every
\* field the partial does not name at its previous value, sets the named
\* fields to the given values and removes every field given as undefined;
\* an update of the timeout directly after an update of the endpoint leaves
\* the new endpoint.
C23_UndefinedFieldRemoved ==
  [][C23_UpdateReturned => C23_UpdateEffect(C23_Fields)]_vars

\* C23 (amended): as above, except that endpoint and timeout are never
\* removed: given as undefined they are reset to the schema's default.
C23_UndefinedOptionalFieldRemoved ==
  [][C23_UpdateReturned => C23_UpdateEffect(C23_Fields \ C23_Defaulted)]_vars

\* C23 witness: the token was replaced and the email removed by one update
\* of a signed-in record whose endpoint and timeout had been changed
\* before; uid, expiry, endpoint and timeout are still there.
C23_Witness ==
  /\ lastCall.op = "updateConfig"
  /\ ~lastCall.threw
  /\ lastCall.arg = [firebaseIdToken |-> Str(2), userEmail |-> Undefined]
  /\ Get(config, "firebaseIdToken") = Str(2)
  /\ ~Has(config, "userEmail")
  /\ Get(config, "firebaseUid") = Str(1)
  /\ Has(config, "firebaseTokenExpiresAt")
  /\ config["endpoint"] = Str(2)
  /\ config["timeout"] = Num(99)

\* the call before this step was a clearTokens that returned and so is the
\* call made in this step
C24_SecondClear ==
  /\ lastCall.op = "clearTokens" /\ ~lastCall.threw
  /\ lastCall'.op = "clearTokens" /\ ~lastCall'.threw

C24_SecondClearStep == C24_SecondClear => (config' = config /\ file' = file)

\* C24: a clearTokens() directly after a clearTokens() changes neither the
\* cached record nor config.json; and in every state, clearing the record
\* twice gives the record that clearing it once gives.
C24_ClearTokensIdempotent ==
  /\ [](clearTokens(clearTokens(config)) = clearTokens(config))
  /\ [][C24_SecondClearStep]_vars

\* C24 witness: clearTokens was called on a record with another endpoint
\* and timeout; token fields are gone, file and cache agree, and one more
\* clearTokens would store the same record.
C24_Witness ==
  /\ lastCall.op = "clearTokens"
  /\ ~lastCall.threw
  /\ config = [endpoint |-> Str(2), timeout |-> Num(99), lastLogin |-> Str(0)]
  /\ file = saved(config)
  /\ saveConfig(file, config, MergeConfig(config, ClearUpdate), "written").cache
       = config

C25_ClearStep ==
  (lastCall'.op = "clearTokens" /\ ~lastCall'.threw)
  => /\ TokensAbsent(config')
     /\ \A k \in DOMAIN config \ TokenFields :
          k \in DOMAIN config' /\ config'[k] = config[k]
     /\ DOMAIN config' \subseteq DOMAIN config
     /\ file' = saved(config')
     /\ ~isAuthenticated(config')
     /\ ~AuthManager_isAuthenticated(config')
     /\ ~needsFirebaseTokenRefresh(config', now')
     /\ getCurrentUserId(config') = Undefined
     /\ "Authorization" \notin DOMAIN getApiHeaders(config')

\* C25: a clearTokens() (logout()) that returns leaves no firebaseIdToken,
\* firebaseRefreshToken, firebaseTokenExpiresAt, firebaseUid or userEmail in
\* the record or the file and leaves every other field as it was; then
\* isAuthenticated() and needsFirebaseTokenRefresh() are false,
\* getCurrentUserId() is undefined and getApiHeaders() has no Authorization.
C25_ClearTokensRemovesTokenFields == [][C25_ClearStep]_vars

\* C25 witness: clearTokens was called on the full signed-in record saved
\* before; the token fields are gone and endpoint, timeout and lastLogin
\* are the saved ones.
C25_Witness ==
  /\ lastCall.op = "clearTokens"
  /\ ~lastCall.threw
  /\ config = [endpoint |-> Str(2), timeout |-> Num(99), lastLogin |-> Str(0)]
  /\ file = saved(config)
  /\ ~isAuthenticated(config)
  /\ getApiHeaders(config) = BaseHeaders

\* the call made in this step is a loadConfig() on the manager in use
C26_ReloadStep ==
  /\ lastCall'.op = "reload"
  /\ lastCall' # lastCall
  /\ UNCHANGED <<file, now, clientVars, callVars>>

C26_ReloadReplacesCacheStep ==
  C26_ReloadStep
  => /\ config' = loadConfig(file').value
     /\ isAuthenticated(config') = isAuthenticated(loadConfig(file').value)
     /\ getApiHeaders(config') = getApiHeaders(loadConfig(file').value)

\* C26 (as claimed): after an explicit loadConfig() the record the config
\* accessor returns, and with it isAuthenticated() and getApiHeaders(), is
\* the record that is on disk, also when the file was written by another
\* store instance since the record was cached.
C26_ReloadRefreshesAccessor == [][C26_ReloadReplacesCacheStep]_vars

\* C27: between two reset() calls at most one APIClient is constructed and
\* every getInstance call that returns gives that instance; getInstance with
\* no ConfigManager while no instance exists throws; reset() drops the
\* instance and leaves the file as it was; the instance constructed after a
\* reset is bound to the ConfigManager passed to that getInstance call.
C27_GetInstanceStep ==
  lastCall'.op = "getInstance" =>
    /\ (singleton.instance = 0 /\ lastCall'.arg = 0) => lastCall'.threw
    /\ ~lastCall'.threw =>
         /\ lastCall'.value = singleton'.instance
         /\ singleton.instance # 0 => /\ lastCall'.value = singleton.instance
                                      /\ singleton' = singleton
         /\ singleton.instance = 0 => /\ singleton'.configManager = lastCall'.arg
                                      /\ singleton'.built = singleton.built + 1
    /\ file' = file

C27_ResetStep ==
  lastCall'.op = "reset" =>
    /\ singleton'.instance = 0
    /\ singleton'.built = singleton.built
    /\ file' = file
    /\ config' = config

C27_OneInstanceBetweenResets ==
  /\ [](singleton.sinceReset <= 1)
  /\ [][C27_GetInstanceStep /\ C27_ResetStep]_vars

\* a second manager was passed while the client of the first existed, after
\* an earlier reset, and the call returned the existing client
C27_Witness ==
  /\ lastCall.op = "getInstance"
  /\ ~lastCall.threw
  /\ lastCall.arg = 2
  /\ singleton.configManager = 1
  /\ singleton.built = 2
  /\ lastCall.value = 2
  /\ file.kind = "json"

\* C28: updateFirebaseTokens called at time now stores idToken, refreshToken,
\* uid, email, the expiry now + expiresIn * 1000 and a new lastLogin; a store
\* opened with no file is not authenticated before the call and is
\* authenticated after it; with expiresIn = 3600 no refresh is needed after
\* the call. As stated, for every call whose write is not refused:
C28_Call == lastCall'.op = "updateFirebaseTokens" /\ now' = now

C28_Stored ==
  /\ Get(config', "firebaseIdToken") = lastCall'.arg.idToken
  /\ Get(config', "firebaseRefreshToken") = lastCall'.arg.refreshToken
  /\ Get(config', "firebaseUid") = lastCall'.arg.uid
  /\ Get(config', "userEmail") = lastCall'.arg.email
  /\ Get(config', "firebaseTokenExpiresAt") = Num(now + lastCall'.arg.expiresIn * 1000)
  /\ Get(config', "lastLogin") = Str(now)
  /\ Get(config', "endpoint") = Get(config, "endpoint")
  /\ Get(config', "timeout") = Get(config, "timeout")
  /\ file' = saved(config')
  /\ lastCall'.arg.expiresIn = DefaultExpiresIn =>
       ~needsFirebaseTokenRefresh(config', now')

C28_FreshStoreNotAuthenticated ==
  (lastCall = NoCall /\ file = FileAbsent) => ~isAuthenticated(config)

C28_TokensStoredStep ==
  (C28_Call /\ lastCall'.write \notin {"refused", "truncated"}) =>
    /\ ~lastCall'.threw
    /\ C28_Stored
    /\ isAuthenticated(config')

C28_TokensStoredWhenAcceptedStep ==
  C28_Call =>
    /\ lastCall'.threw <=> (lastCall'.arg.email = Str(0) \/ lastCall'.write # "written")
    /\ lastCall'.threw => config' = config
    /\ ~lastCall'.threw =>
         /\ C28_Stored
         /\ isAuthenticated(config') <=>
              (Truthy(lastCall'.arg.idToken) /\ Truthy(lastCall'.arg.uid))

C29_LoginStep ==
  (lastCall'.op = "login" /\ now' = now) =>
    /\ ~lastCall'.threw
    /\ (~isValidEmail(lastCall'.arg.email) \/ lastCall'.arg.password = Str(0)) =>
         /\ ~lastCall'.success
         /\ ~lastCall'.network
         /\ lastCall'.error \in {"Invalid email format", "Password is required"}
    /\ ~lastCall'.success =>
         /\ lastCall'.error # "none"
         /\ config' = config
         /\ file' = file \/ (lastCall'.write = "truncated" /\ file' = FileNotJSON)
    /\ lastCall'.success => lastCall'.network /\ lastCall'.answer.kind = "ok"

C30_VerifyStep ==
  (lastCall'.op = "verifyToken" /\ now' = now) =>
    /\ ~lastCall'.threw
    /\ ~AuthManager_isAuthenticated(config) =>
         /\ ~lastCall'.valid
         /\ lastCall'.error = "Not authenticated"
         /\ ~lastCall'.network
         /\ config' = config
         /\ file' = file
    /\ (AuthManager_isAuthenticated(config)
          /\ lastCall'.answer \in {"rejected", "unauthorized"}) =>
         /\ ~lastCall'.valid
         /\ lastCall'.network
         /\ lastCall'.write = "written" =>
              /\ TokensAbsent(config')
              /\ file' = saved(config')
              /\ \A k \in DOMAIN config \ TokenFields :
                   k \in DOMAIN config' /\ config'[k] = config[k]
    /\ (AuthManager_isAuthenticated(config) /\ lastCall'.answer = "valid") =>
         /\ lastCall'.valid
         /\ lastCall'.network
         /\ config' = config
         /\ file' = file

C30_VerifyTokenEffects == [][C30_VerifyStep]_vars

\* tokens stored by a login were verified, found invalid and removed; the
\* login's lastLogin stays
C30_Witness ==
  /\ lastCall.op = "verifyToken"
  /\ lastCall.answer = "unauthorized"
  /\ ~lastCall.valid
  /\ lastCall.network
  /\ TokensAbsent(config)
  /\ Has(config, "lastLogin")
  /\ file = saved(config)

\* C31: when every network call settles, a refresh that was started settles
\* and the marker is cleared, and every call awaiting a refresh stops
\* awaiting it: it is dispatched, ends with the refresh's error, or goes on
\* to a later refresh. (A call whose continuation would start one refresh
\* more than MaxRefresh stays where it is: the run ends there.)
C31_OutOfRefreshes(c) == Runnable(c) /\ Len(refreshes) = MaxRefresh

C31_Settled == PendingIds = {} /\ ~isRefreshing /\ refreshPromise = 0

C31_Released == \A c \in Calls : awaiting[c] = 0 \/ C31_OutOfRefreshes(c)

C31_RefreshRunsToCompletion == []<>(C31_Settled /\ C31_Released)

\* two calls awaited one refresh, which was rejected; both have ended with
\* its error and the marker is clear
C31_Witness ==
  /\ Len(refreshes) = 1
  /\ refreshes[1].status = "rejected"
  /\ ~isRefreshing
  /\ refreshPromise = 0
  /\ \A c \in Calls : pc[c] = "done" /\ result[c].name = "APIError"

\* C32: at most one refreshIdToken call is in flight at any time, counting
\* the ones started by refreshTokenIfNeeded and the ones started by
\* AuthManager.refreshToken().
C32_OneExchangeInFlight == Cardinality(PendingIds) + forcedInFlight <= 1

\* C33: a call whose first attempt is answered 401 while a refresh started by
\* another call is in flight awaits that refresh; it is not ended at once.
C33_First401DuringRefresh(c) ==
  /\ pc[c] = "sent"
  /\ resps[c] = <<>>
  /\ resps'[c] = <<401>>
  /\ isRefreshing
  /\ refreshPromise \in PendingIds

C33_JoinStep ==
  \A c \in Calls :
    C33_First401DuringRefresh(c) =>
      /\ pc'[c] = "respAwait"
      /\ awaiting'[c] = refreshPromise

C33_401JoinsRefreshInFlight == [][C33_JoinStep]_vars

\* C34: when the tokens were cleared (logout) while a refresh network call
\* was outstanding and that call then settles, the record still holds no
\* firebaseIdToken and no firebaseRefreshToken, and getApiHeaders() has no
\* Authorization.
C34_RefreshSettlesStep ==
  \/ \E id \in PendingIds : refreshes'[id].status # "pending"
  \/ forcedInFlight' < forcedInFlight

C34_LoggedOut(cfg) ==
  /\ ~Has(cfg, "firebaseIdToken")
  /\ ~Has(cfg, "firebaseRefreshToken")
  /\ "Authorization" \notin DOMAIN getApiHeaders(cfg)

C34_LogoutStaysStep ==
  (C34_RefreshSettlesStep /\ C34_LoggedOut(config)) => C34_LoggedOut(config')

C34_LogoutNotUndoneByRefresh == [][C34_LogoutStaysStep]_vars

\* C35: when a refresh started by the pipeline has succeeded, whatever
\* expires_in the exchange answered, needsFirebaseTokenRefresh() is false when
\* the awaiting calls resume (they resume before the clock moves).
C35_RefreshSucceedsStep == \E id \in PendingIds : refreshes'[id].status = "resolved"

C35_FreshAfterRefreshStep ==
  C35_RefreshSucceedsStep => ~needsFirebaseTokenRefresh(config', now')

C35_FreshAfterSuccessfulRefresh == [][C35_FreshAfterRefreshStep]_vars

\* C36: verifyToken on an authenticated store whose verification request got
\* no response leaves the record and the file as they were; the tokens are
\* removed only when the server answered that the token is invalid.
C36_NetworkFailureStep ==
  (/\ lastCall'.op = "verifyToken"
   /\ now' = now
   /\ AuthManager_isAuthenticated(config)
   /\ lastCall'.answer = "networkFailure") =>
    /\ ~lastCall'.valid
    /\ config' = config
    /\ lastCall'.write = "written" => file' = file

C36_VerifyKeepsTokensOnNetworkFailure == [][C36_NetworkFailureStep]_vars

\* C37: with two ConfigManagers on one directory, an updateConfig that
\* returns changes in config.json only the fields it names; the fields the
\* other instance wrote keep the values the file had.
C37_UpdateStep ==
  /\ lastCall'.op \in {"updateConfig", "otherUpdateConfig"}
  /\ ~lastCall'.threw
  /\ file.kind = "json"

C37_OtherFieldsKeptStep ==
  C37_UpdateStep =>
    /\ file'.kind = "json"
    /\ \A k \in (StringFields \cup NumberFields) \ DOMAIN lastCall'.arg :
         Get(file'.data, k) = Get(file.data, k)

C37_NoLostUpdate == [][C37_OtherFieldsKeptStep]_vars

\* C38: the record loadConfig() returns passes schema validation, whatever
\* the environment the default record was built from, so an updateConfig
\* with fields the schema accepts does not throw.
C38_ValidFields(updates) ==
  SchemaOK([k \in {f \in DOMAIN updates : updates[f] # Undefined} |-> updates[k]])

C38_ValidUpdateStep ==
  (lastCall'.op = "updateConfig" /\ C38_ValidFields(lastCall'.arg)) => ~lastCall'.threw

C38_LoadedRecordValid == [](SchemaOK(config)) /\ [][C38_ValidUpdateStep]_vars

\* C39: in every record that holds an idToken, getTokenInfo().needsRefresh
\* equals needsTokenRefresh(), also when no expiry is stored; and
\* getAuthStatus() is TOKEN_EXPIRED exactly when the store is authenticated
\* and needsTokenRefresh() is true.
C39_RefreshIndicatorsAgree ==
  /\ Truthy(Get(config, "firebaseIdToken")) =>
       getTokenInfo(config, now).needsRefresh = needsTokenRefresh(config, now)
  /\ getAuthStatus(config, now) = "token_expired" <=>
       (AuthManager_isAuthenticated(config) /\ needsTokenRefresh(config, now))

\* C40: whenever control is back in the event loop, isRefreshing is true
\* exactly when refreshPromise is set; a refresh is started in the very step
\* that found no marker, and that step leaves both parts of the marker set.
C40_MarkerPartsAgree == isRefreshing <=> refreshPromise # 0

C40_CheckAndSetStep ==
  Len(refreshes') # Len(refreshes) =>
    /\ ~isRefreshing /\ refreshPromise = 0
    /\ Len(refreshes') = Len(refreshes) + 1
    /\ isRefreshing' /\ refreshPromise' = Len(refreshes')

C40_MarkerAtomic == []C40_MarkerPartsAgree /\ [][C40_CheckAndSetStep]_vars

\* two calls were issued while the token was stale: the first set the
\* marker, the second found it and awaits the same refresh
C40_Witness ==
  /\ Len(refreshes) = 1
  /\ refreshes[1].status = "pending"
  /\ isRefreshing /\ refreshPromise = 1
  /\ \A c \in Calls : pc[c] = "reqAwait" /\ awaiting[c] = 1

====
